---- MODULE Spec2Model ----
(***************************************************************************)
(* Multi-source product enrichment (app/services/product_enricher.py).     *)
(*                                                                         *)
(* Conventions of the model                                                *)
(*   - a Python dict key that is absent and a key whose value is falsy     *)
(*     ("", [], {}, None) are both written as the empty value of the       *)
(*     field's type, because the code reads every field with               *)
(*     product.get(key) and branches on truthiness only;                   *)
(*   - a text (ingredients, allergen statement) is a sequence of lowercase *)
(*     tokens; the tokens "contains:", "may contain:" and "." are the      *)
(*     labels and the sentence end that parse_allergen_statement looks for; *)
(*   - a nutrition mapping is a set of <<key, value>> pairs;               *)
(*   - a Python list used as a collection of tags (allergens) is a set;    *)
(*   - SOURCE_WEIGHTS are scaled by 10 to stay in the integers.            *)
(***************************************************************************)
EXTENDS Integers, Sequences, FiniteSets, TLC

VARIABLES
    products,           \* enrich_products: the list passed in (dicts are mutated in place)
    inputs,             \* the list as it was when enrich_products was called
    scrape,             \* enrich_products: the scrape flag
    enriched,           \* enrich_products: the list being built
    idx,                \* enrich_products: position of the loop (1-based)
    pc,                 \* position inside enrich_products / enrich_product
    nutrition,          \* enrich_product: local nutrition
    nutrition_source,   \* enrich_product: local nutrition_source
    scraped_data,       \* enrich_product: local scraped_data
    trace,              \* external calls, their returns and sleeps, in order
    results,            \* merge_scraped_data: its argument
    reordered,          \* the same results in another order
    merged,             \* merge_scraped_data(results)
    merged_reordered,   \* merge_scraped_data(reordered)
    mpc,                \* position of the merge_scraped_data harness
    client,             \* brand_voice: TRUE when the module's client is not None
    gen_products,       \* generate: the list passed in (dicts are mutated in place)
    gen_inputs,         \* the list as it was when generate was called
    enhanced_products,  \* generate: the list being built
    gidx,               \* generate: position of the loop (1-based)
    gpc,                \* position inside generate / generate_single_product
    attempt,            \* generate_single_product: the loop variable
    gtrace,             \* LLM calls and backoff sleeps, in order
    all_rows,           \* csv_parser.process: the rows of the file
    has_headers,        \* process: what detect_has_headers answered
    csv_products,       \* process: the list being built
    row_num,            \* process: position in all_rows (1-based)
    cpc,                \* position inside process
    csv_error,          \* process: the exception it raised, "" if none
    given_row,          \* detect_has_headers: its argument
    detected,           \* detect_has_headers(given_row)
    hpc,                \* position of the detect_has_headers harness
    given_barcode,      \* clean_barcode: its argument
    cleaned,            \* clean_barcode(given_barcode)
    recleaned,          \* clean_barcode(cleaned)
    bpc,                \* position of the clean_barcode harness
    diet_ingredients,   \* detect_dietary_attributes: ingredients
    diet_product_text,  \* detect_dietary_attributes: product_text
    diet_badges,        \* detect_dietary_attributes: badges
    diet_nutrition,     \* detect_dietary_attributes: <<bool(nutrition), its sugars>>
    diet_attributes,    \* detect_dietary_attributes(...)
    dpc,                \* position of the detect_dietary_attributes harness
    given_items,        \* format_list_metafield: items
    list_cell,          \* format_list_metafield(given_items)
    list_parsed,        \* json.loads(list_cell)
    lpc,                \* position of the format_list_metafield harness
    given_text,         \* format_rich_text_metafield: text
    rich_cell,          \* format_rich_text_metafield(given_text)
    rich_parsed,        \* json.loads(rich_cell)
    rpc,                \* position of the format_rich_text_metafield harness
    given_inventory,    \* match_products_to_inventory: inventory
    match_products,     \* match_products_to_inventory: products (dicts are mutated in place)
    match_inputs,       \* the products as they were when it was called
    lookup_index,       \* match_products_to_inventory: index
    xidx,               \* match_products_to_inventory: position of the loop (1-based)
    xpc,                \* position inside match_products_to_inventory
    flag_row,           \* the cells of one row of the flag sheet
    flag_product,       \* the product made of the row, then enriched
    ingested,           \* the product as ingestion left it
    dietary_cell,       \* the dietary-preferences cell of the exported row
    dietary_parsed,     \* what json.loads makes of the cell
    ppc,                \* where the row is on its way
    fetch_barcode,      \* fetch_nutrition_by_barcode: barcode
    http_requests,      \* the barcodes requested from the API, in order
    http_answer,        \* what the network answered to the request
    fetch_result,       \* what fetch_nutrition_by_barcode returned
    fetch_raised,       \* whether an exception left fetch_nutrition_by_barcode
    fpc,                \* position inside fetch_nutrition_by_barcode
    scrape_firecrawl,   \* HAS_FIRECRAWL and is_firecrawl_configured()
    scrape_brand,       \* whether the brand has a known website
    scrape_results,     \* scrape_product_data: results
    fetched,            \* the pages fetched so far, in order
    sup_idx,            \* position in SUPPLIER_CONFIGS (1-based)
    spc                 \* position inside scrape_product_data

enrichVars == <<products, inputs, scrape, enriched, idx, pc, nutrition,
                nutrition_source, scraped_data, trace>>
mergeVars == <<results, reordered, merged, merged_reordered, mpc>>
genVars == <<client, gen_products, gen_inputs, enhanced_products, gidx, gpc,
             attempt, gtrace>>
csvVars == <<all_rows, has_headers, csv_products, row_num, cpc, csv_error>>
headerVars == <<given_row, detected, hpc>>
barcodeVars == <<given_barcode, cleaned, recleaned, bpc>>
dietVars == <<diet_ingredients, diet_product_text, diet_badges, diet_nutrition,
              diet_attributes, dpc>>
listVars == <<given_items, list_cell, list_parsed, lpc>>
richVars == <<given_text, rich_cell, rich_parsed, rpc>>
matchVars == <<given_inventory, match_products, match_inputs, lookup_index,
               xidx, xpc>>
flagVars == <<flag_row, flag_product, ingested, dietary_cell, dietary_parsed,
              ppc>>
fetchVars == <<fetch_barcode, http_requests, http_answer, fetch_result,
               fetch_raised, fpc>>
scrapeVars == <<scrape_firecrawl, scrape_brand, scrape_results, fetched,
                sup_idx, spc>>
beyondEnrich == <<mergeVars, genVars, csvVars, headerVars, barcodeVars,
                  dietVars, listVars, richVars, matchVars, flagVars,
                  fetchVars, scrapeVars>>
beyondMerge == <<enrichVars, genVars, csvVars, headerVars, barcodeVars,
                 dietVars, listVars, richVars, matchVars, flagVars, fetchVars,
                 scrapeVars>>
beyondGen == <<enrichVars, mergeVars, csvVars, headerVars, barcodeVars,
               dietVars, listVars, richVars, matchVars, flagVars, fetchVars,
               scrapeVars>>
beyondCsv == <<enrichVars, mergeVars, genVars, headerVars, barcodeVars,
               dietVars, listVars, richVars, matchVars, flagVars, fetchVars,
               scrapeVars>>
beyondHeader == <<enrichVars, mergeVars, genVars, csvVars, barcodeVars,
                  dietVars, listVars, richVars, matchVars, flagVars,
                  fetchVars, scrapeVars>>
beyondBarcode == <<enrichVars, mergeVars, genVars, csvVars, headerVars,
                   dietVars, listVars, richVars, matchVars, flagVars,
                   fetchVars, scrapeVars>>
beyondDiet == <<enrichVars, mergeVars, genVars, csvVars, headerVars,
                barcodeVars, listVars, richVars, matchVars, flagVars,
                fetchVars, scrapeVars>>
beyondList == <<enrichVars, mergeVars, genVars, csvVars, headerVars,
                barcodeVars, dietVars, richVars, matchVars, flagVars,
                fetchVars, scrapeVars>>
beyondRich == <<enrichVars, mergeVars, genVars, csvVars, headerVars,
                barcodeVars, dietVars, listVars, matchVars, flagVars,
                fetchVars, scrapeVars>>
beyondMatch == <<enrichVars, mergeVars, genVars, csvVars, headerVars,
                 barcodeVars, dietVars, listVars, richVars, flagVars,
                 fetchVars, scrapeVars>>
beyondFlag == <<enrichVars, mergeVars, genVars, csvVars, headerVars,
                barcodeVars, dietVars, listVars, richVars, matchVars,
                fetchVars, scrapeVars>>
beyondFetch == <<enrichVars, mergeVars, genVars, csvVars, headerVars,
                 barcodeVars, dietVars, listVars, richVars, matchVars,
                 flagVars, scrapeVars>>
beyondScrape == <<enrichVars, mergeVars, genVars, csvVars, headerVars,
                  barcodeVars, dietVars, listVars, richVars, matchVars,
                  flagVars, fetchVars>>
vars == <<enrichVars, mergeVars, genVars, csvVars, headerVars, barcodeVars,
          dietVars, listVars, richVars, matchVars, flagVars, fetchVars,
          scrapeVars>>

(***************************************************************************)
(* Bounds                                                                  *)
(***************************************************************************)
MaxProducts == 2
MaxItems == 2
MaxPieces == 3
MaxRecords == 2
MaxMatched == 2

(***************************************************************************)
(* Values                                                                  *)
(***************************************************************************)

HAS_OPENFOODFACTS == TRUE
HAS_BRAND_SCRAPER == TRUE

SOURCE_WEIGHTS ==
    [manufacturer |-> 10, big4_supplier |-> 9, specialty_retailer |-> 7,
     supermarket |-> 5, marketplace |-> 1]

ALLERGEN_PATTERNS ==
    [celery |-> {"celery", "celeriac"},
     cereals_containing_gluten |-> {"wheat", "rye", "barley", "oats", "spelt", "kamut"},
     crustaceans |-> {"crab", "lobster", "prawn", "shrimp", "crayfish", "langoustine"},
     eggs |-> {"egg", "albumen", "albumin"},
     fish |-> {"fish", "cod", "salmon", "tuna", "anchovy", "sardine", "mackerel"},
     lupin |-> {"lupin", "lupine"},
     milk |-> {"milk", "cream", "butter", "cheese", "whey", "casein", "lactose", "yoghurt"},
     molluscs |-> {"mussel", "oyster", "squid", "octopus", "clam", "scallop", "snail"},
     mustard |-> {"mustard"},
     nuts |-> {"almond", "hazelnut", "walnut", "cashew", "pistachio", "pecan",
               "brazil nut", "macadamia"},
     peanuts |-> {"peanut", "groundnut", "arachis"},
     sesame |-> {"sesame", "tahini"},
     soya |-> {"soya", "soy", "edamame", "tofu", "tempeh"},
     sulphites |-> {"sulphite", "sulfite", "sulphur dioxide", "e220", "e221", "e222",
                    "e223", "e224", "e225", "e226", "e227", "e228"}]

\* allergen_name.replace("_", " ").title()
DisplayName ==
    [celery |-> "Celery", cereals_containing_gluten |-> "Cereals Containing Gluten",
     crustaceans |-> "Crustaceans", eggs |-> "Eggs", fish |-> "Fish", lupin |-> "Lupin",
     milk |-> "Milk", molluscs |-> "Molluscs", mustard |-> "Mustard", nuts |-> "Nuts",
     peanuts |-> "Peanuts", sesame |-> "Sesame", soya |-> "Soya",
     sulphites |-> "Sulphites"]

\* str.title() on the tokens the texts of the model are made of
Title(w) ==
    CASE w = "water" -> "Water"
      [] w = "sugar" -> "Sugar"
      [] w = "milk" -> "Milk"
      [] w = "wheat" -> "Wheat"
      [] w = "soya" -> "Soya"
      [] w = "peanut" -> "Peanut"
      [] w = "sesame" -> "Sesame"
      [] w = "oats" -> "Oats"
      [] OTHER -> w

\* _ingredient_present: the pattern occurs as a whole word of the text
IngredientPresent(pattern, text) ==
    \E k \in 1..Len(text) : text[k] = pattern

extract_allergens(ingredients) ==
    {DisplayName[a] : a \in {n \in DOMAIN ALLERGEN_PATTERNS :
        \E p \in ALLERGEN_PATTERNS[n] : IngredientPresent(p, ingredients)}}

\* The clause after the first occurrence of `label`, up to the first of `stops`
ClauseAfter(text, label, stops) ==
    IF \E k \in 1..Len(text) : text[k] = label
    THEN LET s == CHOOSE k \in 1..Len(text) :
                     /\ text[k] = label
                     /\ \A j \in 1..(k - 1) : text[j] # label
             rest == SubSeq(text, s + 1, Len(text))
             e == IF \E k \in 1..Len(rest) : rest[k] \in stops
                  THEN (CHOOSE k \in 1..Len(rest) :
                           /\ rest[k] \in stops
                           /\ \A j \in 1..(k - 1) : rest[j] \notin stops) - 1
                  ELSE Len(rest)
         IN SubSeq(rest, 1, e)
    ELSE <<>>

parse_allergen_statement(text) ==
    [contains |-> LET c == ClauseAfter(text, "contains:", {".", "may contain:"})
                  IN {Title(c[k]) : k \in 1..Len(c)},
     may_contain |-> LET c == ClauseAfter(text, "may contain:", {"."})
                     IN {Title(c[k]) : k \in 1..Len(c)}]

\* NUTRITION_PATTERNS: the label of a row -> the key it is stored under
NutritionKey(label) ==
    CASE label = "energy" -> "energy_kcal"
      [] label = "fat" -> "fat"
      [] label = "sugars" -> "sugars"
      [] label = "protein" -> "protein"
      [] label = "salt" -> "salt"
      [] OTHER -> ""

\* nutrition_html is a sequence of <<label, value>> rows; the first row of a
\* label wins (re.search returns the first match)
parse_nutrition_from_html(html) ==
    {<<NutritionKey(html[k][1]), html[k][2]>> : k \in
        {k \in 1..Len(html) :
            /\ NutritionKey(html[k][1]) # ""
            /\ \A j \in 1..(k - 1) : NutritionKey(html[j][1]) # NutritionKey(html[k][1])}}

(***************************************************************************)
(* scrape_product_data: the results it gathers, and merge_scraped_data     *)
(***************************************************************************)
Fields == {"ingredients", "nutrition_html", "description", "dietary_badges",
           "allergen_text"}

\* f"{field}_source"
SourceKey(field) ==
    CASE field = "ingredients" -> "ingredients_source"
      [] field = "nutrition_html" -> "nutrition_html_source"
      [] field = "description" -> "description_source"
      [] field = "dietary_badges" -> "dietary_badges_source"
      [] field = "allergen_text" -> "allergen_text_source"

SupplierKeys == {"clf", "essential", "suma", "infinity"}
\* the suppliers whose config has requires_login False
OpenSupplierKeys == {"infinity"}
\* FALLBACK_SEARCH_URLS[:2], source_name.lower().replace(" ", "_")
FallbackSources == {"holland_&_barrett", "planet_organic"}

\* What a page of each tier says in each field
TierValue(tier, field) ==
    CASE field = "ingredients" ->
            (CASE tier = "manufacturer" -> <<"oats", "sugar">>
               [] tier = "big4_supplier" -> <<"peanut", "may contain:", "sesame">>
               [] OTHER -> <<"water", "milk", "contains:", "soya">>)
      [] field = "nutrition_html" ->
            (CASE tier = "manufacturer" -> << <<"energy", "120">>, <<"sugars", "0.3">> >>
               [] tier = "big4_supplier" -> << <<"serving", "30">> >>
               [] OTHER -> << <<"fat", "2">>, <<"fat", "3">> >>)
      [] field = "description" -> <<"description", tier>>
      [] field = "dietary_badges" -> <<"vegan", tier>>
      [] field = "allergen_text" ->
            (CASE tier = "manufacturer" -> <<"contains:", "wheat", ".">>
               [] OTHER -> <<"may contain:", "soya">>)

\* One scraped result: the fields in `present` carry a value, the others are empty
Result(source, tier, present) ==
    [source |-> source,
     weight |-> SOURCE_WEIGHTS[tier],
     ingredients |-> IF "ingredients" \in present
                     THEN TierValue(tier, "ingredients") ELSE <<>>,
     nutrition_html |-> IF "nutrition_html" \in present
                        THEN TierValue(tier, "nutrition_html") ELSE <<>>,
     description |-> IF "description" \in present
                     THEN TierValue(tier, "description") ELSE <<>>,
     dietary_badges |-> IF "dietary_badges" \in present
                        THEN TierValue(tier, "dietary_badges") ELSE <<>>,
     allergen_text |-> IF "allergen_text" \in present
                       THEN TierValue(tier, "allergen_text") ELSE <<>>]

\* The field combinations a page is taken to carry
PageShapes ==
    {{}, {"ingredients"}, {"nutrition_html"},
     {"ingredients", "nutrition_html", "description"},
     {"description", "dietary_badges", "allergen_text"},
     Fields}

AnyHasIngredients(rs) == \E k \in 1..Len(rs) : rs[k].ingredients # <<>>

\* The lists scrape_product_data can hand to merge_scraped_data: at most one brand
\* result, then at most one supplier result (the FireCrawl loop breaks after the
\* first success; the direct loop skips every requires_login supplier), then at
\* most one fallback result, tried only while no result has ingredients.
GatheredResults(suppliers, fallbacks, shapes) ==
    LET brandPart == {<<>>} \cup {<<Result("manufacturer", "manufacturer", sh)>> :
                                     sh \in shapes}
        supplierPart == {<<>>} \cup {<<Result(k, "big4_supplier", sh)>> :
                                        k \in suppliers, sh \in shapes}
        fallbackPart == {<<>>} \cup {<<Result(f, "specialty_retailer", sh)>> :
                                        f \in fallbacks, sh \in shapes}
    IN {t[1] \o t[2] \o t[3] :
            t \in {u \in brandPart \X supplierPart \X fallbackPart :
                      u[3] = <<>> \/ ~AnyHasIngredients(u[1] \o u[2])}}

\* Mutant: the results are left in the order they were gathered
InsertByWeight_Unsorted(sorted, r) == Append(sorted, r)

\* sorted(results, key=weight, reverse=True): stable, so results of equal weight
\* keep their order
InsertByWeight(sorted, r) ==
    LET k == Cardinality({j \in 1..Len(sorted) : sorted[j].weight >= r.weight})
    IN SubSeq(sorted, 1, k) \o <<r>> \o SubSeq(sorted, k + 1, Len(sorted))

RECURSIVE SortByWeight(_)
SortByWeight(rs) ==
    IF rs = <<>> THEN <<>>
    ELSE InsertByWeight(SortByWeight(SubSeq(rs, 1, Len(rs) - 1)), rs[Len(rs)])

EmptyMerged == [k \in {} |-> <<>>]

\* the first result of `sorted` with a truthy value for `field`
FirstWith(sorted, field) ==
    sorted[CHOOSE k \in 1..Len(sorted) :
              /\ sorted[k][field] # <<>>
              /\ \A j \in 1..(k - 1) : sorted[j][field] = <<>>]

merge_scraped_data(rs) ==
    IF rs = <<>> THEN EmptyMerged
    ELSE LET sorted_results == SortByWeight(rs)
             found == {f \in Fields :
                          \E k \in 1..Len(sorted_results) : sorted_results[k][f] # <<>>}
         IN [key \in found \cup {SourceKey(f) : f \in found} |->
                IF key \in found
                THEN FirstWith(sorted_results, key)[key]
                ELSE LET f == CHOOSE f \in found : SourceKey(f) = key
                     IN FirstWith(sorted_results, f).source]

\* dict.get(key, default)
Get(d, key, default) == IF key \in DOMAIN d THEN d[key] ELSE default

RECURSIVE Orderings(_)
Orderings(rs) ==
    IF rs = <<>> THEN {<<>>}
    ELSE UNION {{<<rs[k]>> \o rest :
                    rest \in Orderings(SubSeq(rs, 1, k - 1) \o SubSeq(rs, k + 1, Len(rs)))} :
                k \in 1..Len(rs)}

(***************************************************************************)
(* Products and the answers of the external services                       *)
(***************************************************************************)
EAN == "5030009999999"
BRAND == "clearspring"

N_csv == {<<"energy_kcal", "250">>, <<"sugars", "12">>}
N_prior == {<<"energy_kcal", "90">>}
N_off == {<<"energy_kcal", "100">>, <<"fat", "1.5">>}
N_brand == {<<"protein", "7">>}
T_csv == <<"water", "sugar">>
T_off == <<"water", "milk">>
T_brand == <<"wheat", "contains:", "soya">>
A_csv == {"Celery"}
A_off == {"Milk"}
A_brand == {"Soya"}
URL_brand == "https://www.clearspring.co.uk/products/quinoa"

\* A product as an ingestion adapter hands it over; the fields enrich_product
\* adds are empty
Draft(name, ean, brand, nut, src, ing, all) ==
    [name |-> name, ean |-> ean, brand |-> brand,
     nutrition |-> nut, nutrition_source |-> src,
     ingredients |-> ing, ingredients_source |-> "",
     allergens |-> all, data_source_url |-> "", enrichment_error |-> "",
     may_contain |-> {}, description_scraped |-> <<>>,
     data_sources |-> <<>>, scrape_sources |-> <<>>]

\* nutrition is tagged csv by the CSV parser exactly when the row carried some;
\* brand_website is the tag main.py gives nutrition merged from a brand index
ProductInputs ==
    {Draft("Organic Quinoa 500g", e, b, n[1], n[2], i, a) :
        e \in {"", EAN}, b \in {"", BRAND},
        n \in {<<{}, "">>, <<N_csv, "csv">>, <<N_prior, "brand_website">>},
        i \in {<<>>, T_csv}, a \in {{}, A_csv}}

BatchInputs ==
    {Draft("Miso Soup", EAN, BRAND, {}, "", <<>>, {}),
     Draft("Oat Milk", EAN, "", N_csv, "csv", T_csv, A_csv),
     Draft("Rice Cakes", "", BRAND, {}, "", T_csv, {})}

\* fetch_nutrition_by_barcode: None, an exception, or a dict that always has the
\* keys source, product_name, brands and barcode; `nutrients` are its other keys
OffAnswer(kind, nut, ing, all) ==
    [kind |-> kind, nutrients |-> nut, ingredients_from_off |-> ing,
     allergens_from_off |-> all]

OffNone == OffAnswer("none", {}, <<>>, {})
OffRaise == OffAnswer("raise", {}, <<>>, {})

OffOutcomes ==
    {OffNone, OffRaise} \cup
    {OffAnswer("data", n, i, a) : n \in {{}, N_off}, i \in {<<>>, T_off}, a \in {{}, A_off}}

BatchOffOutcomes == {OffNone, OffRaise, OffAnswer("data", N_off, T_off, A_off)}

\* scrape_brand_website: None, an exception, or the dict of parse_product_page
BrandAnswer(kind, nut, ing, all, url) ==
    [kind |-> kind, nutrition |-> nut, ingredients |-> ing, allergens |-> all,
     source_url |-> url]

BrandNone == BrandAnswer("none", {}, <<>>, {}, "")
BrandRaise == BrandAnswer("raise", {}, <<>>, {}, "")

BrandOutcomes ==
    {BrandNone, BrandRaise} \cup
    {BrandAnswer("data", n, i, a, URL_brand) :
        n \in {{}, N_brand}, i \in {<<>>, T_brand}, a \in {{}, A_brand}}

BatchBrandOutcomes ==
    {BrandNone, BrandRaise, BrandAnswer("data", N_brand, T_brand, A_brand, URL_brand)}

\* The result lists of scrape_product_data the enrichment is run against
EnrichShapes == {{"ingredients"}, {"nutrition_html"}, Fields}
EnrichResultLists == GatheredResults({"infinity"}, {"planet_organic"}, EnrichShapes)
BatchResultLists ==
    {<<>>,
     <<Result("manufacturer", "manufacturer", Fields)>>,
     <<Result("infinity", "big4_supplier", {"ingredients"})>>}

(***************************************************************************)
(* enrich_product, stage by stage                                          *)
(***************************************************************************)
\* Priority 1: `if nutrition and nutrition_source == "csv"`
UsesCsvNutrition(nut, src) == nut # {} /\ src = "csv"

\* Mutant: the lookup is made for every product that has a barcode
OffLookupApplies_AnyBarcode(nut, src, ean) == ean # "" /\ HAS_OPENFOODFACTS

\* Priority 2: `elif not nutrition and ean and HAS_OPENFOODFACTS`
OffLookupApplies(nut, src, ean) ==
    /\ ~UsesCsvNutrition(nut, src)
    /\ nut = {}
    /\ ean # ""
    /\ HAS_OPENFOODFACTS

\* `if off_data and not product.get("ingredients")`, `... not product.get("allergens")`
OffFillsIngredients(p, off) == off.ingredients_from_off # <<>> /\ p.ingredients = <<>>
OffFillsAllergens(p, off) == off.allergens_from_off # {} /\ p.allergens = {}

\* The body of the try around fetch_nutrition_by_barcode, for each answer
AfterOff(p, nut, src, off) ==
    IF off.kind = "data"
    THEN [product |->
              [p EXCEPT
                 !.ingredients = IF OffFillsIngredients(p, off)
                                 THEN off.ingredients_from_off ELSE @,
                 !.ingredients_source = IF OffFillsIngredients(p, off)
                                        THEN "openfoodfacts" ELSE @,
                 !.allergens = IF OffFillsAllergens(p, off)
                               THEN off.allergens_from_off ELSE @],
          nutrition |-> off.nutrients,
          nutrition_source |-> "openfoodfacts"]
    ELSE [product |-> p, nutrition |-> nut, nutrition_source |-> src]

\* Priority 2b: `if HAS_BRAND_SCRAPER and brand and (not nutrition or not ingredients)`
BrandScrapeApplies(brand, nut, ing) ==
    HAS_BRAND_SCRAPER /\ brand # "" /\ (nut = {} \/ ing = <<>>)

\* Mutant: the brand website's nutrition is taken without the `not nutrition` test
BrandFillsNutrition_Unguarded(nut, bd) == bd.nutrition # {}

BrandFillsNutrition(nut, bd) == nut = {} /\ bd.nutrition # {}
BrandFillsIngredients(p, bd) == p.ingredients = <<>> /\ bd.ingredients # <<>>
BrandFillsAllergens(p, bd) == p.allergens = {} /\ bd.allergens # {}

\* The body of the try around scrape_brand_website, for each answer
AfterBrand(p, nut, src, bd) ==
    IF bd.kind = "data"
    THEN [product |->
              [p EXCEPT
                 !.ingredients = IF BrandFillsIngredients(p, bd) THEN bd.ingredients ELSE @,
                 !.ingredients_source = IF BrandFillsIngredients(p, bd)
                                        THEN "brand_website" ELSE @,
                 !.allergens = IF BrandFillsAllergens(p, bd) THEN bd.allergens ELSE @,
                 !.data_source_url = IF bd.source_url # "" THEN bd.source_url ELSE @],
          nutrition |-> IF BrandFillsNutrition(nut, bd) THEN bd.nutrition ELSE nut,
          nutrition_source |-> IF BrandFillsNutrition(nut, bd) THEN "brand_website" ELSE src]
    ELSE [product |-> p, nutrition |-> nut, nutrition_source |-> src]

\* scrape_product_data: merged = merge_scraped_data(results); merged["_sources"] = ...
ScrapedData(rs) ==
    [data |-> merge_scraped_data(rs),
     sources |-> [k \in 1..Len(rs) |-> rs[k].source]]

NoScrapedData == [data |-> EmptyMerged, sources |-> <<>>]

\* `if not nutrition and scraped_data.get("nutrition_html")`
ScrapeFillsNutrition(nut, sd) == nut = {} /\ Get(sd.data, "nutrition_html", <<>>) # <<>>

\* ingredients_text = scraped_data.get("ingredients", "") or product.get("ingredients", "")
IngredientsText(sd, p) ==
    IF Get(sd.data, "ingredients", <<>>) # <<>>
    THEN Get(sd.data, "ingredients", <<>>)
    ELSE p.ingredients

\* scraped_data.get("allergen_text", "") or ingredients_text
StatementText(sd, ingredients_text) ==
    IF Get(sd.data, "allergen_text", <<>>) # <<>>
    THEN Get(sd.data, "allergen_text", <<>>)
    ELSE ingredients_text

\* allergens = extract_allergens(ingredients_text), then every "contains" item
\* that is not yet in it is appended
FinalAllergens(sd, ingredients_text) ==
    extract_allergens(ingredients_text) \cup
    parse_allergen_statement(StatementText(sd, ingredients_text)).contains

DataSources(p, src, sd) ==
    (IF src # "" THEN << <<"Nutrition", src>> >> ELSE <<>>) \o
    (IF p.ingredients_source # ""
     THEN << <<"Ingredients", p.ingredients_source>> >> ELSE <<>>) \o
    [k \in 1..Len(sd.sources) |-> <<"Scraped", sd.sources[k]>>]

\* The dict enrich_product returns: {**product, "ingredients": ..., ...}.  The
\* keys ingredients_list, nutrition_shopify, dietary and dietary_preferences are
\* computed from ingredients_text and nutrition alone and are left out here.
Enriched(p, nut, src, sd) ==
    [p EXCEPT
        !.ingredients = IngredientsText(sd, p),
        !.nutrition = nut,
        !.nutrition_source = src,
        !.ingredients_source = p.ingredients_source,
        !.allergens = FinalAllergens(sd, IngredientsText(sd, p)),
        !.may_contain =
            parse_allergen_statement(StatementText(sd, IngredientsText(sd, p))).may_contain,
        !.description_scraped = Get(sd.data, "description", <<>>),
        !.data_sources = DataSources(p, src, sd),
        !.data_source_url = p.data_source_url,
        !.scrape_sources = sd.sources]

\* enrich_products, `except Exception as e`: product["_enrichment_error"] = str(e)
WithEnrichmentError(p) == [p EXCEPT !.enrichment_error = "scrape failed"]

\* Mutant: the failed product is not appended
AppendFailed_Dropped(out, p) == out

\* ... and enriched.append(product)
AppendFailed(out, p) == Append(out, WithEnrichmentError(p))

Event(ev, what) == [ev |-> ev, what |-> what, idx |-> idx]

\* Mutant: the supplier scrape is placed before the brand website
StageOrder_Swapped == <<"off", "scrape", "brand", "finish">>

\* The stages of enrich_product in the order of its text: barcode lookup (lines
\* 115-144), brand website (146-172), supplier scrape (174-183), stage 5 (185-253)
StageOrder == <<"off", "brand", "scrape", "finish">>

\* The stage whose test comes after `stage` is over
Following(stage) ==
    StageOrder[(CHOOSE k \in 1..Len(StageOrder) : StageOrder[k] = stage) + 1]

\* lines 97-119: read the locals, take the csv branch or issue the barcode lookup
EnrichStart ==
    /\ pc = "off"
    /\ LET p == products[idx]
           applies == OffLookupApplies(p.nutrition, p.nutrition_source, p.ean)
       IN /\ nutrition' = p.nutrition
          /\ nutrition_source' = p.nutrition_source
          /\ pc' = IF applies THEN "await_off" ELSE Following("off")
          /\ trace' = IF applies THEN Append(trace, Event("call", "off")) ELSE trace
    /\ scraped_data' = NoScrapedData
    /\ UNCHANGED <<products, inputs, scrape, enriched, idx, beyondEnrich>>

\* lines 119-144: the barcode lookup answers
OffReturn(outcomes) ==
    /\ pc = "await_off"
    /\ \E off \in outcomes :
          LET r == AfterOff(products[idx], nutrition, nutrition_source, off)
          IN /\ products' = [products EXCEPT ![idx] = r.product]
             /\ nutrition' = r.nutrition
             /\ nutrition_source' = r.nutrition_source
    /\ trace' = Append(trace, Event("return", "off"))
    /\ pc' = Following("off")
    /\ UNCHANGED <<inputs, scrape, enriched, idx, scraped_data, beyondEnrich>>

\* lines 146-150: decide on the brand-website scrape and issue it
BrandCheck ==
    /\ pc = "brand"
    /\ LET p == products[idx]
           applies == BrandScrapeApplies(p.brand, nutrition, p.ingredients)
       IN /\ pc' = IF applies THEN "await_brand" ELSE Following("brand")
          /\ trace' = IF applies THEN Append(trace, Event("call", "brand")) ELSE trace
    /\ UNCHANGED <<products, inputs, scrape, enriched, idx, nutrition,
                   nutrition_source, scraped_data, beyondEnrich>>

\* lines 150-172: the brand-website scrape answers
BrandReturn(outcomes) ==
    /\ pc = "await_brand"
    /\ \E bd \in outcomes :
          LET r == AfterBrand(products[idx], nutrition, nutrition_source, bd)
          IN /\ products' = [products EXCEPT ![idx] = r.product]
             /\ nutrition' = r.nutrition
             /\ nutrition_source' = r.nutrition_source
    /\ trace' = Append(trace, Event("return", "brand"))
    /\ pc' = Following("brand")
    /\ UNCHANGED <<inputs, scrape, enriched, idx, scraped_data, beyondEnrich>>

\* lines 174-177: `if scrape:` issue scrape_product_data
ScrapeCheck ==
    /\ pc = "scrape"
    /\ pc' = IF scrape THEN "await_scrape" ELSE Following("scrape")
    /\ trace' = IF scrape THEN Append(trace, Event("call", "scrape")) ELSE trace
    /\ UNCHANGED <<products, inputs, scrape, enriched, idx, nutrition,
                   nutrition_source, scraped_data, beyondEnrich>>

\* `if brand: brand_url = get_brand_website(brand); if brand_url:` - a result of
\* the manufacturer is gathered only for a product whose brand has a website
CanGather(p, rs) ==
    \A k \in 1..Len(rs) : rs[k].source = "manufacturer" => p.brand # ""

\* lines 177-183: scrape_product_data returns the merge of what it gathered
ScrapeReturn(lists) ==
    /\ pc = "await_scrape"
    /\ \E rs \in lists :
          LET sd == ScrapedData(rs)
              fills == ScrapeFillsNutrition(nutrition, sd)
          IN /\ CanGather(products[idx], rs)
             /\ scraped_data' = sd
             /\ nutrition' = IF fills
                             THEN parse_nutrition_from_html(sd.data["nutrition_html"])
                             ELSE nutrition
             /\ nutrition_source' = IF fills THEN "scraped" ELSE nutrition_source
    /\ trace' = Append(trace, Event("return", "scrape"))
    /\ pc' = Following("scrape")
    /\ UNCHANGED <<products, inputs, scrape, enriched, idx, beyondEnrich>>

\* scrape_product_data raises: enrich_product has no handler around it, so the
\* exception reaches enrich_products (lines 273-276)
ScrapeRaise ==
    /\ pc = "await_scrape"
    /\ products' = [products EXCEPT ![idx] = WithEnrichmentError(@)]
    /\ enriched' = AppendFailed(enriched, products[idx])
    /\ trace' = Append(trace, Event("raise", "scrape"))
    /\ pc' = "sleep"
    /\ nutrition' = {}
    /\ nutrition_source' = ""
    /\ scraped_data' = NoScrapedData
    /\ UNCHANGED <<inputs, scrape, idx, beyondEnrich>>

\* lines 185-253 and 271-272: stage 5, the returned dict, enriched.append
Finish ==
    /\ pc = "finish"
    /\ enriched' = Append(enriched,
                          Enriched(products[idx], nutrition, nutrition_source, scraped_data))
    /\ trace' = Append(trace, Event("finish", "parse"))
    /\ pc' = "sleep"
    /\ nutrition' = {}
    /\ nutrition_source' = ""
    /\ scraped_data' = NoScrapedData
    /\ UNCHANGED <<products, inputs, scrape, idx, beyondEnrich>>

\* lines 268, 279-281: await asyncio.sleep(0.6), then the next product or return
Sleep ==
    /\ pc = "sleep"
    /\ trace' = Append(trace, Event("sleep", "delay"))
    /\ IF idx < Len(products)
       THEN idx' = idx + 1 /\ pc' = StageOrder[1]
       ELSE idx' = idx /\ pc' = "done"
    /\ UNCHANGED <<products, inputs, scrape, enriched, nutrition, nutrition_source,
                   scraped_data, beyondEnrich>>

EnrichBegin(batches) ==
    /\ products \in batches
    /\ inputs = products
    /\ scrape \in BOOLEAN
    /\ enriched = <<>>
    /\ idx = 1
    /\ pc = StageOrder[1]
    /\ nutrition = {}
    /\ nutrition_source = ""
    /\ scraped_data = NoScrapedData
    /\ trace = <<>>

(***************************************************************************)
(* merge_scraped_data on the lists scrape_product_data can build, and on   *)
(* the same results in every other order                                   *)
(***************************************************************************)
EnrichIdle ==
    /\ products = <<>>
    /\ inputs = <<>>
    /\ scrape = FALSE
    /\ enriched = <<>>
    /\ idx = 1
    /\ pc = "idle"
    /\ nutrition = {}
    /\ nutrition_source = ""
    /\ scraped_data = NoScrapedData
    /\ trace = <<>>

MergeInputs == GatheredResults(SupplierKeys, FallbackSources, PageShapes)

MergeIdle ==
    /\ results = <<>>
    /\ reordered = <<>>
    /\ merged = EmptyMerged
    /\ merged_reordered = EmptyMerged
    /\ mpc = "idle"

MergeCall ==
    /\ mpc = "call"
    /\ merged' = merge_scraped_data(results)
    /\ mpc' = "again"
    /\ UNCHANGED <<results, reordered, merged_reordered, beyondMerge>>

MergeReorderedCall ==
    /\ mpc = "again"
    /\ merged_reordered' = merge_scraped_data(reordered)
    /\ mpc' = "merged"
    /\ UNCHANGED <<results, reordered, merged, beyondMerge>>

(***************************************************************************)
(* brand_voice.generate and generate_single_product                        *)
(*   - the content of an LLM response is a record: whether it is wrapped   *)
(*     in a markdown fence, whether what is inside the fence is JSON, and  *)
(*     the short_html and long_html of that JSON (long_html as the         *)
(*     sequence of its <p> paragraphs)                                     *)
(***************************************************************************)
OPENAI_MAX_RETRIES == 3

NoDescriptions ==
    [shortDescription |-> "", metaDescription |-> "", longDescription |-> <<>>]

\* generate, lines 180-184
PlaceholderDescriptions ==
    [shortDescription |-> "<p>Processing error</p>",
     metaDescription |-> "Product description generation failed.",
     longDescription |-> <<"Unable to generate description.">>]

GenProduct(name) ==
    [name |-> name, descriptions |-> NoDescriptions, generation_error |-> ""]

GenInputs == {GenProduct("Miso Soup"), GenProduct("Oat Milk")}

Content(fenced, json, short, long) ==
    [empty |-> FALSE, fenced |-> fenced, json |-> json,
     short_html |-> short, long_html |-> long]

EmptyContent ==
    [empty |-> TRUE, fenced |-> FALSE, json |-> FALSE,
     short_html |-> "", long_html |-> <<>>]

Contents ==
    {EmptyContent,
     Content(FALSE, TRUE, "<p>Warming miso.</p>", <<"A warming bowl.", "Made in Japan.">>),
     Content(TRUE, TRUE, "<p>Warming miso.</p>", <<"A warming bowl.">>),
     Content(FALSE, FALSE, "", <<>>),
     Content(FALSE, TRUE, "", <<"A warming bowl.">>),
     Content(TRUE, TRUE, "<p>Warming miso.</p>", <<>>)}

\* client.chat.completions.create: an OpenAIError, or a response
CreateRaises == [raises |-> TRUE, content |-> EmptyContent]
CreateAnswers(c) == [raises |-> FALSE, content |-> c]
CreateOutcomes == {CreateRaises} \cup {CreateAnswers(c) : c \in Contents}

\* first <p> of long_html, else the plain text from the start
extract_meta_from_long_html(long_html) ==
    IF long_html # <<>> THEN Head(long_html) ELSE ""

\* parse_openai_response: the fences are stripped, then json.loads, then both
\* keys must be non-empty; ok = FALSE stands for the exception it raises
parse_openai_response(content) ==
    IF ~content.json
    THEN [ok |-> FALSE, error |-> "Invalid JSON from OpenAI",
          descriptions |-> NoDescriptions]
    ELSE IF content.short_html = "" \/ content.long_html = <<>>
    THEN [ok |-> FALSE, error |-> "Missing short_html or long_html in response",
          descriptions |-> NoDescriptions]
    ELSE [ok |-> TRUE, error |-> "",
          descriptions |->
              [shortDescription |-> content.short_html,
               metaDescription |-> extract_meta_from_long_html(content.long_html),
               longDescription |-> content.long_html]]

\* lines 218-243: what one pass through the try block gives
AttemptResult(outcome) ==
    IF outcome.raises
    THEN [ok |-> FALSE, error |-> "OpenAIError", descriptions |-> NoDescriptions]
    ELSE IF outcome.content.empty
    THEN [ok |-> FALSE, error |-> "OpenAI returned empty response",
          descriptions |-> NoDescriptions]
    ELSE parse_openai_response(outcome.content)

\* Mutant: one attempt more than OPENAI_MAX_RETRIES
MayRetry_OneMore(k) == k <= OPENAI_MAX_RETRIES

\* lines 249, 262: if attempt < OPENAI_MAX_RETRIES
MayRetry(k) == k < OPENAI_MAX_RETRIES

\* lines 251, 263: wait_time = 2 ** attempt
WaitTime(k) == 2 ^ k

GenEvent(ev, k, wait) == [idx |-> gidx, ev |-> ev, attempt |-> k, wait_time |-> wait]

WithGenerationError(p, error) ==
    [p EXCEPT !.descriptions = PlaceholderDescriptions, !.generation_error = error]

\* Mutant: a product whose generation failed is left out of the output
GenAppendFailed_Dropped(out, p, error) == out

\* generate, lines 177-186: the except branch
GenAppendFailed(out, p, error) == Append(out, WithGenerationError(p, error))

\* generate, lines 172 and 188: the next product, or return
GenAdvance ==
    IF gidx < Len(gen_products)
    THEN gidx' = gidx + 1 /\ gpc' = "single"
    ELSE gidx' = gidx /\ gpc' = "done"

\* generate_single_product, lines 202-203, raising into generate's except
SingleNoClient ==
    /\ gpc = "single"
    /\ ~client
    /\ LET error == "OpenAI client not initialized - check OPENAI_API_KEY"
       IN /\ enhanced_products' = GenAppendFailed(enhanced_products, gen_products[gidx], error)
          /\ gen_products' = [gen_products EXCEPT ![gidx] = WithGenerationError(@, error)]
    /\ GenAdvance
    /\ UNCHANGED <<client, gen_inputs, attempt, gtrace, beyondGen>>

\* generate_single_product, lines 206-214: the first pass of the retry loop
SingleStart ==
    /\ gpc = "single"
    /\ client
    /\ attempt' = 1
    /\ gpc' = "create"
    /\ UNCHANGED <<client, gen_products, gen_inputs, enhanced_products, gidx, gtrace,
                   beyondGen>>

\* lines 218-227: await client.chat.completions.create(...)
Create ==
    /\ gpc = "create"
    /\ gtrace' = Append(gtrace, GenEvent("call", attempt, 0))
    /\ gpc' = "await_create"
    /\ UNCHANGED <<client, gen_products, gen_inputs, enhanced_products, gidx,
                   attempt, beyondGen>>

\* lines 229-243: the response is usable, the product is returned
CreateSucceeds ==
    /\ gpc = "await_create"
    /\ \E outcome \in CreateOutcomes :
          LET r == AttemptResult(outcome)
              p == [gen_products[gidx] EXCEPT !.descriptions = r.descriptions]
          IN /\ r.ok
             /\ gen_products' = [gen_products EXCEPT ![gidx] = p]
             /\ enhanced_products' = Append(enhanced_products, p)
    /\ GenAdvance
    /\ UNCHANGED <<client, gen_inputs, attempt, gtrace, beyondGen>>

\* lines 245-253, 258-264: a failed attempt that is followed by another
CreateFailsRetry ==
    /\ gpc = "await_create"
    /\ \E outcome \in CreateOutcomes : ~AttemptResult(outcome).ok
    /\ MayRetry(attempt)
    /\ gpc' = "backoff"
    /\ UNCHANGED <<client, gen_products, gen_inputs, enhanced_products, gidx,
                   attempt, gtrace, beyondGen>>

\* lines 253, 264: await asyncio.sleep(wait_time), then the next pass
Backoff ==
    /\ gpc = "backoff"
    /\ gtrace' = Append(gtrace, GenEvent("sleep", attempt, WaitTime(attempt)))
    /\ attempt' = attempt + 1
    /\ gpc' = "create"
    /\ UNCHANGED <<client, gen_products, gen_inputs, enhanced_products, gidx,
                   beyondGen>>

\* lines 254-256, 265-266: the last attempt failed; generate's except branch
CreateFailsLast ==
    /\ gpc = "await_create"
    /\ ~MayRetry(attempt)
    /\ \E outcome \in CreateOutcomes :
          LET r == AttemptResult(outcome)
          IN /\ ~r.ok
             /\ enhanced_products' = GenAppendFailed(enhanced_products, gen_products[gidx], r.error)
             /\ gen_products' = [gen_products EXCEPT ![gidx] = WithGenerationError(@, r.error)]
    /\ GenAdvance
    /\ UNCHANGED <<client, gen_inputs, attempt, gtrace, beyondGen>>

GenIdle ==
    /\ client = FALSE
    /\ gen_products = <<>>
    /\ gen_inputs = <<>>
    /\ enhanced_products = <<>>
    /\ gidx = 1
    /\ gpc = "idle"
    /\ attempt = 0
    /\ gtrace = <<>>

(***************************************************************************)
(* csv_parser: strings                                                     *)
(*   - a Python str is a sequence of one-character strings, so that the    *)
(*     tests and conversions of the code (strip, lower, isdigit, in,       *)
(*     re.match, float, int, str) are computed character by character;     *)
(*   - float(s) is the decimal number s denotes: an integer digit string,  *)
(*     a fraction digit string and an exponent; int(float(s)) moves the    *)
(*     decimal point and drops the fraction. This is what the binary       *)
(*     float gives for numbers of at most MaxFloatDigits significant       *)
(*     digits, and the inputs are kept within that.                        *)
(***************************************************************************)
MaxFloatDigits == 15

DigitChars == {"0", "1", "2", "3", "4", "5", "6", "7", "8", "9"}

DigitValue ==
    [c \in DigitChars |->
        CASE c = "0" -> 0 [] c = "1" -> 1 [] c = "2" -> 2 [] c = "3" -> 3
          [] c = "4" -> 4 [] c = "5" -> 5 [] c = "6" -> 6 [] c = "7" -> 7
          [] c = "8" -> 8 [] c = "9" -> 9]

LowerOf ==
    [A |-> "a", B |-> "b", C |-> "c", D |-> "d", E |-> "e", F |-> "f", G |-> "g",
     H |-> "h", I |-> "i", J |-> "j", K |-> "k", L |-> "l", M |-> "m", N |-> "n",
     O |-> "o", P |-> "p", Q |-> "q", R |-> "r", S |-> "s", T |-> "t", U |-> "u",
     V |-> "v", W |-> "w", X |-> "x", Y |-> "y", Z |-> "z"]

\* str.lower()
Lower(s) == [i \in 1..Len(s) |-> IF s[i] \in DOMAIN LowerOf THEN LowerOf[s[i]] ELSE s[i]]

\* c in s, for a character c
HasChar(s, c) == \E i \in 1..Len(s) : s[i] = c

\* sub in s, for a string sub
Contains(s, sub) ==
    \E i \in 0..(Len(s) - Len(sub)) : SubSeq(s, i + 1, i + Len(sub)) = sub

\* the characters str.strip() and \s take for whitespace
WhitespaceChars == {" ", "\n", "\t"}

\* str.strip()
Strip(s) ==
    LET inked == {i \in 1..Len(s) : s[i] \notin WhitespaceChars}
    IN IF inked = {} THEN <<>>
       ELSE SubSeq(s, CHOOSE i \in inked : \A j \in inked : i <= j,
                      CHOOSE i \in inked : \A j \in inked : i >= j)

IsDigitChar(c) == c \in DigitChars

\* str.isdigit()
IsDigit(s) == s # <<>> /\ \A i \in 1..Len(s) : IsDigitChar(s[i])

AllDigits(s) == \A i \in 1..Len(s) : IsDigitChar(s[i])

\* re.sub(r'[^\d]', '', s)
DigitsOnly(s) == SelectSeq(s, IsDigitChar)

NotSeparator(c) == c \notin {" ", "-", "."}

\* s.replace(' ', '').replace('-', '').replace('.', '')
WithoutSeparators(s) == SelectSeq(s, NotSeparator)

\* s.split('.')[0]
BeforeDot(s) ==
    IF HasChar(s, ".")
    THEN SubSeq(s, 1, (CHOOSE i \in 1..Len(s) : s[i] = "." /\ \A j \in 1..(i-1) : s[j] # ".") - 1)
    ELSE s

Zeros(n) == [i \in 1..n |-> "0"]

\* the digits of a number without its leading zeros ("0" for zero)
WithoutLeadingZeros(ds) ==
    LET nonzero == {i \in 1..Len(ds) : ds[i] # "0"}
    IN IF nonzero = {} THEN <<"0">>
       ELSE SubSeq(ds, CHOOSE i \in nonzero : \A j \in nonzero : i <= j, Len(ds))

RECURSIVE NatOf(_)
\* int(ds) for a short digit string (an exponent)
NatOf(ds) ==
    IF ds = <<>> THEN 0
    ELSE 10 * NatOf(SubSeq(ds, 1, Len(ds) - 1)) + DigitValue[ds[Len(ds)]]

NotANumber ==
    [ok |-> FALSE, neg |-> FALSE, int |-> <<>>, frac |-> <<>>, exp |-> 0]

\* float(s): [sign] digits [. digits] [(e|E) [sign] digits], with a digit on
\* at least one side of the point; surrounding blanks are allowed
float(s) ==
    LET t == Strip(s)
        signed == t # <<>> /\ t[1] \in {"+", "-"}
        u == IF signed THEN Tail(t) ELSE t
        es == {i \in 1..Len(u) : u[i] \in {"e", "E"}}
        epos == IF es = {} THEN Len(u) + 1
                ELSE CHOOSE i \in es : \A j \in es : i <= j
        mant == SubSeq(u, 1, epos - 1)
        expo == SubSeq(u, epos + 1, Len(u))
        esigned == expo # <<>> /\ expo[1] \in {"+", "-"}
        edigits == IF esigned THEN Tail(expo) ELSE expo
        ipart == BeforeDot(mant)
        fpart == IF HasChar(mant, ".") THEN SubSeq(mant, Len(ipart) + 2, Len(mant))
                 ELSE <<>>
    IN IF /\ AllDigits(ipart) /\ AllDigits(fpart)
          /\ Len(ipart) + Len(fpart) >= 1
          /\ (es # {} => IsDigit(edigits))
       THEN [ok |-> TRUE,
             neg |-> signed /\ t[1] = "-",
             int |-> ipart,
             frac |-> fpart,
             exp |-> IF es = {} THEN 0
                     ELSE IF esigned /\ expo[1] = "-" THEN 0 - NatOf(edigits)
                     ELSE NatOf(edigits)]
       ELSE NotANumber

\* the digits of the integer part of the number f, without leading zeros
IntegerDigits(f) ==
    LET all == f.int \o f.frac
        point == Len(f.int) + f.exp
    IN WithoutLeadingZeros(
           IF point <= 0 THEN <<"0">>
           ELSE IF point >= Len(all) THEN all \o Zeros(point - Len(all))
           ELSE SubSeq(all, 1, point))

IsZero(f) == \A i \in 1..Len(f.int \o f.frac) : (f.int \o f.frac)[i] = "0"

\* the float is inf: int() raises OverflowError
IsInfinite(f) ==
    ~IsZero(f) /\ Len(WithoutLeadingZeros(f.int)) + f.exp > 309

\* the significant digits the number needs in decimal
SignificantDigits(f) ==
    IF IsZero(f) THEN 0
    ELSE LET all == f.int \o f.frac
             sig == {i \in 1..Len(all) : all[i] # "0"}
             first == CHOOSE i \in sig : \A j \in sig : i <= j
             last == CHOOSE i \in sig : \A j \in sig : i >= j
             point == Len(f.int) + f.exp
         IN IF point > last THEN point - first + 1 ELSE last - first + 1

\* str(int(f))
StrInt(f) ==
    LET ds == IntegerDigits(f)
    IN IF f.neg /\ ds # <<"0">> THEN <<"-">> \o ds ELSE ds

\* the binary float is the decimal number written
WithinFloatPrecision(s) ==
    LET f == float(s)
    IN f.ok => (IsInfinite(f) \/ IsZero(f) \/
                SignificantDigits(f) <= MaxFloatDigits)

(***************************************************************************)
(* csv_parser.clean_barcode and fix_scientific_barcode                     *)
(***************************************************************************)
\* lines 467-472: scientific notation, left alone when float() or int() raises
FromScientific(barcode) ==
    LET f == float(barcode)
    IN IF HasChar(Lower(barcode), "e") /\ f.ok /\ ~IsInfinite(f)
       THEN StrInt(f)
       ELSE barcode

\* lines 475-486: a decimal point; the integer part of the number, or what
\* stands before the first point when float() or int() raises
FromFloat(barcode) ==
    LET f == float(barcode)
    IN IF ~HasChar(barcode, ".") THEN barcode
       ELSE IF f.ok /\ ~IsInfinite(f) THEN StrInt(f)
       ELSE BeforeDot(barcode)

\* Mutant: a 13-digit result is padded as well
NeedsPadding_Also13(digits_only) == Len(digits_only) \in {12, 13}

\* line 498: if len(digits_only) == 12
NeedsPadding(digits_only) == Len(digits_only) = 12

\* lines 493-506
Validated(digits_only) ==
    IF Len(digits_only) >= 8 /\ Len(digits_only) <= 14
    THEN IF NeedsPadding(digits_only) THEN <<"0">> \o digits_only ELSE digits_only
    ELSE digits_only

clean_barcode(barcode) ==
    IF barcode = <<>> THEN <<>>
    ELSE Validated(DigitsOnly(WithoutSeparators(
             FromFloat(FromScientific(Strip(barcode))))))

\* re.match(r'^[\d.]+[eE][+\-]?\d+$', value)
MatchesScientific(value) ==
    \E k \in 2..(Len(value) - 1) :
        /\ value[k] \in {"e", "E"}
        /\ \A i \in 1..(k-1) : IsDigitChar(value[i]) \/ value[i] = "."
        /\ LET rest == SubSeq(value, k + 1, Len(value))
               digits == IF rest[1] \in {"+", "-"} THEN Tail(rest) ELSE rest
           IN IsDigit(digits)

\* lines 90-108
fix_scientific_barcode(value) ==
    IF value = <<>> THEN <<>>
    ELSE LET v == Strip(value)
             f == float(v)
         IN IF MatchesScientific(v) /\ f.ok /\ ~IsInfinite(f) THEN StrInt(f) ELSE v

(***************************************************************************)
(* Barcodes as they arrive: every short string over BarcodeChars, and      *)
(* digit runs of 7 to 15 digits written plainly, as a float with ".0", in  *)
(* scientific notation, with separators and with blanks around             *)
(***************************************************************************)
MaxBarcodeLen == 3

BarcodeChars == {"0", "5", ".", "e", "-", " ", "a"}

ShortBarcodes == UNION {[1..n -> BarcodeChars] : n \in 0..MaxBarcodeLen}

EanBodies ==
    {<<"5", "0", "3", "0", "0", "0", "9", "9", "9", "9", "9", "9", "9", "1", "2">>,
     <<"5", "0", "6", "0", "0", "9", "0", "0", "0", "0", "0", "0", "0", "0", "0">>}

\* a run of n digits, the first z of them zeros
DigitRun(body, n, z) == [i \in 1..n |-> IF i <= z THEN "0" ELSE body[i - z]]

DigitRuns(lengths) ==
    {DigitRun(body, n, z) : body \in EanBodies, n \in lengths, z \in 0..2}

DigitOf == <<"0", "1", "2", "3", "4", "5", "6", "7", "8", "9">>

\* str(n) for n < 100
StrNat(n) ==
    IF n < 10 THEN <<DigitOf[n + 1]>>
    ELSE <<DigitOf[(n \div 10) + 1], DigitOf[(n % 10) + 1]>>

PlainForm(d) == d

\* the number d as a spreadsheet exports a float cell
DotZeroForm(d) == d \o <<".", "0">>

\* the number d in scientific notation with all its significant digits
ScientificForm(d) ==
    LET s == WithoutLeadingZeros(d)
        sig == {i \in 1..Len(s) : s[i] # "0"}
        last == IF sig = {} THEN 1 ELSE CHOOSE i \in sig : \A j \in sig : i >= j
        mantissa == IF last = 1 THEN <<s[1]>>
                    ELSE <<s[1], ".">> \o SubSeq(s, 2, last)
    IN mantissa \o <<"E", "+">> \o StrNat(Len(s) - 1)

SeparatedForm(d) == <<d[1], " ">> \o SubSeq(d, 2, Len(d) - 1) \o <<"-", d[Len(d)]>>

PaddedForm(d) == <<" ">> \o d \o <<" ">>

Forms(d) ==
    {PlainForm(d), DotZeroForm(d), ScientificForm(d), SeparatedForm(d), PaddedForm(d)}

BarcodeInputs ==
    {b \in ShortBarcodes \cup UNION {Forms(d) : d \in DigitRuns(7..15)} :
        WithinFloatPrecision(b)}

(***************************************************************************)
(* csv_parser.detect_has_headers                                           *)
(***************************************************************************)
\* lines 50-53
header_keywords ==
    {<<"n", "a", "m", "e">>,
     <<"s", "k", "u">>,
     <<"c", "o", "d", "e">>,
     <<"d", "e", "s", "c", "r", "i", "p", "t", "i", "o", "n">>,
     <<"b", "r", "a", "n", "d">>,
     <<"b", "a", "r", "c", "o", "d", "e">>,
     <<"e", "a", "n">>,
     <<"t", "i", "t", "l", "e">>,
     <<"p", "r", "o", "d", "u", "c", "t">>,
     <<"c", "a", "t", "e", "g", "o", "r", "y">>,
     <<"p", "r", "i", "c", "e">>,
     <<"w", "e", "i", "g", "h", "t">>,
     <<"i", "m", "a", "g", "e">>}

\* lines 56-61: cells whose lowered, stripped text contains a keyword
keyword_matches(first_row) ==
    Cardinality({i \in 1..Len(first_row) :
                    \E kw \in header_keywords :
                        Contains(Strip(Lower(first_row[i])), kw)})

\* line 73: cell_str.isdigit() and len(cell_str) >= 4
LooksLikeCode(cell_str) == IsDigit(cell_str) /\ Len(cell_str) >= 4

\* line 76: re.match(r'^\d+\.?\d*[eE]\+?\d+$', cell_str)
LooksScientific(cell_str) ==
    \E k \in 2..(Len(cell_str) - 1) :
        /\ cell_str[k] \in {"e", "E"}
        /\ LET mant == SubSeq(cell_str, 1, k - 1)
               ipart == BeforeDot(mant)
               fpart == SubSeq(mant, Len(ipart) + 2, Len(mant))
               rest == SubSeq(cell_str, k + 1, Len(cell_str))
               digits == IF rest[1] = "+" THEN Tail(rest) ELSE rest
           IN IsDigit(ipart) /\ AllDigits(fpart) /\ IsDigit(digits)

\* line 79: cell_str.lower() in ['yes', 'no']
LooksYesNo(cell_str) == Lower(cell_str) \in {<<"y", "e", "s">>, <<"n", "o">>}

\* lines 69-80: one count per indicator that a cell shows
data_indicators(first_row) ==
    Cardinality({<<i, 1>> : i \in {j \in 1..Len(first_row) : LooksLikeCode(Strip(first_row[j]))}}
          \cup {<<i, 2>> : i \in {j \in 1..Len(first_row) : LooksScientific(Strip(first_row[j]))}}
          \cup {<<i, 3>> : i \in {j \in 1..Len(first_row) : LooksYesNo(Strip(first_row[j]))}})

\* lines 35-87; TRUE is headered
detect_has_headers(first_row) ==
    IF first_row = <<>> THEN FALSE
    ELSE IF keyword_matches(first_row) >= 2 THEN TRUE
    ELSE IF data_indicators(first_row) >= 2 THEN FALSE
    ELSE TRUE

(***************************************************************************)
(* First rows: up to MaxCells cells of HeaderCells, and the rows of the    *)
(* two examples                                                            *)
(***************************************************************************)
MaxCells == 3

HeaderCells ==
    {<<"S", "K", "U">>,
     <<"D", "e", "s", "c", "r", "i", "p", "t", "i", "o", "n">>,
     <<"B", "a", "r", "c", "o", "d", "e">>,
     <<"3", "7", "1", "3", "6">>,
     <<"5", "0", "3", "0", "0", "0", "9", "9", "9", "9", "9", "9", "9">>,
     <<"A", "i", "n", "s", "w", "o", "r", "t", "h", "s", " ", "O", "r", "g", "a", "n", "i", "c", " ", "S", "o", "u", "p">>,
     <<"Y", "e", "s">>,
     <<"N", "o">>,
     <<"5", ".", "0", "3", "E", "+", "1", "2">>,
     <<"1", "2", "3">>,
     <<>>,
     <<" ", "n", "o", " ">>,
     <<"B", "r", "a", "n", "d", "e", "d", " ", "O", "a", "t", "s">>}

ExampleHeaderRow ==
    <<<<"S", "K", "U">>,
      <<"D", "e", "s", "c", "r", "i", "p", "t", "i", "o", "n">>,
      <<"B", "a", "r", "c", "o", "d", "e">>>>

ExampleDataRow ==
    <<<<"3", "7", "1", "3", "6">>,
      <<"5", "0", "3", "0", "0", "0", "9", "9", "9", "9", "9", "9", "9">>,
      <<"A", "i", "n", "s", "w", "o", "r", "t", "h", "s", " ", "O", "r", "g", "a", "n", "i", "c", " ", "S", "o", "u", "p">>,
      <<"Y", "e", "s">>, <<"N", "o">>>>

FirstRows ==
    UNION {[1..n -> HeaderCells] : n \in 0..MaxCells}
        \cup {ExampleHeaderRow, ExampleDataRow}

(***************************************************************************)
(* csv_parser.process, parse_csv_row and parse_headerless_row              *)
(*   - a file is the list of rows csv.reader gives (all_rows), a row a     *)
(*     list of cells; a blank line is the empty row                        *)
(*   - a product carries the fields the two row parsers fill from the      *)
(*     identity columns: name, category, sku, barcode, brand               *)
(***************************************************************************)
\* extract_csv_field, line 748, and get_col, line 125
SentinelValues == {<<"n", "/", "a">>, <<"n", "o", "n", "e">>, <<"n", "u", "l", "l">>, <<>>}

\* parse_csv_row, lines 242-254
NameKeys ==
    <<<<"D", "e", "s", "c", "r", "i", "p", "t", "i", "o", "n">>,
      <<"d", "e", "s", "c", "r", "i", "p", "t", "i", "o", "n">>,
      <<"P", "r", "o", "d", "u", "c", "t", " ", "N", "a", "m", "e">>,
      <<"P", "r", "o", "d", "u", "c", "t", " ", "T", "i", "t", "l", "e">>,
      <<"n", "a", "m", "e">>, <<"N", "a", "m", "e">>,
      <<"p", "r", "o", "d", "u", "c", "t", "_", "n", "a", "m", "e">>,
      <<"t", "i", "t", "l", "e">>, <<"T", "i", "t", "l", "e">>,
      <<"S", "h", "o", "r", "t", " ", "D", "e", "s", "c", "r", "i", "p", "t", "i", "o", "n">>,
      <<"s", "h", "o", "r", "t", "_", "d", "e", "s", "c", "r", "i", "p", "t", "i", "o", "n">>>>

\* parse_csv_row, lines 257-266
SkuKeys ==
    <<<<"C", "o", "d", "e">>, <<"c", "o", "d", "e">>,
      <<"C", "a", "t", " ", "N", "o">>, <<"c", "a", "t", "_", "n", "o">>,
      <<"S", "K", "U">>, <<"s", "k", "u">>,
      <<"p", "r", "o", "d", "u", "c", "t", "_", "c", "o", "d", "e">>,
      <<"i", "t", "e", "m", "_", "c", "o", "d", "e">>>>

\* parse_csv_row, line 277
BarcodeKeys ==
    <<<<"b", "a", "r", "c", "o", "d", "e">>,
      <<"B", "a", "r", "c", "o", "d", "e">>, <<"e", "a", "n">>,
      <<"E", "A", "N">>, <<"u", "p", "c">>, <<"g", "t", "i", "n">>,
      <<"V", "a", "r", "i", "a", "n", "t", " ", "B", "a", "r", "c", "o", "d", "e">>>>

\* parse_csv_row, line 278
BrandKeys ==
    <<<<"b", "r", "a", "n", "d">>, <<"B", "r", "a", "n", "d">>,
      <<"m", "a", "n", "u", "f", "a", "c", "t", "u", "r", "e", "r">>>>

Category == <<"G", "r", "o", "c", "e", "r", "i", "e", "s">>

NoProduct ==
    [found |-> FALSE, name |-> <<>>, category |-> <<>>, sku |-> <<>>,
     barcode |-> <<>>, brand |-> <<>>]

CsvProduct(name, category, sku, barcode, brand) ==
    [found |-> TRUE, name |-> name, category |-> category, sku |-> sku,
     barcode |-> barcode, brand |-> brand]

\* csv.DictReader with the stripped fieldnames (line 194) and the stripped
\* values (line 201): the value under key, the last column of that name
\* winning; a missing cell (None) reads as the empty string
RowGet(fieldnames, row, key) ==
    LET cols == {i \in 1..Len(fieldnames) : Strip(fieldnames[i]) = key /\ i <= Len(row)}
    IN IF cols = {} THEN <<>>
       ELSE Strip(row[CHOOSE i \in cols : \A j \in cols : i >= j])

RECURSIVE FirstTruthy(_, _, _)
\* row.get(k1) or row.get(k2) or ...
FirstTruthy(fieldnames, row, keys) ==
    IF keys = <<>> THEN <<>>
    ELSE IF RowGet(fieldnames, row, Head(keys)) # <<>>
    THEN RowGet(fieldnames, row, Head(keys))
    ELSE FirstTruthy(fieldnames, row, Tail(keys))

RECURSIVE extract_csv_field(_, _, _)
\* lines 743-750
extract_csv_field(fieldnames, row, keys) ==
    IF keys = <<>> THEN <<>>
    ELSE LET value == Strip(RowGet(fieldnames, row, Head(keys)))
         IN IF value # <<>> /\ Lower(value) \notin SentinelValues
            THEN value
            ELSE extract_csv_field(fieldnames, row, Tail(keys))

\* lines 236-335
parse_csv_row(fieldnames, row, category) ==
    LET name == FirstTruthy(fieldnames, row, NameKeys)
        sku == FirstTruthy(fieldnames, row, SkuKeys)
    IN IF name = <<>> \/ Strip(name) = <<>> THEN NoProduct
       ELSE CsvProduct(Strip(name), category, Strip(sku),
                       clean_barcode(extract_csv_field(fieldnames, row, BarcodeKeys)),
                       extract_csv_field(fieldnames, row, BrandKeys))

\* lines 122-126; col (idx in the code) counts from 0 as in the code
get_col(row, col) ==
    IF col < Len(row)
    THEN LET val == Strip(row[col + 1])
         IN IF Lower(val) \notin SentinelValues THEN val ELSE <<>>
    ELSE <<>>

\* lines 111-158
parse_headerless_row(row, category) ==
    IF row = <<>> \/ Len(row) < 5 THEN NoProduct
    ELSE LET description == get_col(row, 4)
             row_category == IF Len(row) > 6 THEN get_col(row, Len(row) - 1) ELSE <<>>
             final_category == IF row_category # <<>> /\ row_category # <<"-">>
                               THEN row_category ELSE category
         IN IF description = <<>> THEN NoProduct
            ELSE CsvProduct(description, final_category, get_col(row, 1),
                            fix_scientific_barcode(get_col(row, 2)), get_col(row, 0))

(***************************************************************************)
(* Files: up to MaxRows rows out of header rows, rows for a headered file, *)
(* rows of the positional export and the blank line                        *)
(***************************************************************************)
MaxRows == 3

HeaderRowA ==
    <<<<"D", "e", "s", "c", "r", "i", "p", "t", "i", "o", "n">>,
      <<"P", "r", "o", "d", "u", "c", "t", " ", "N", "a", "m", "e">>,
      <<"B", "a", "r", "c", "o", "d", "e">>>>

HeaderRowB ==
    <<<<" ", "N", "a", "m", "e", " ">>, <<"S", "K", "U">>>>

RowOatMilk ==
    <<<<"O", "a", "t", " ", "M", "i", "l", "k">>, <<>>,
      <<"5", "0", "3", "0", "0", "0", "9", "9", "9", "9", "9", "9", "9", ".", "0">>>>

RowSentinelName ==
    <<<<"N", "/", "A">>,
      <<"R", "i", "c", "e", " ", "C", "a", "k", "e", "s">>,
      <<"5", "0", "3", "0", "0", "0", "9", "9", "9", "9", "9", "9">>>>

RowNoName ==
    <<<<>>, <<" ">>,
      <<"5", "0", "3", "0", "0", "0", "9", "9", "9", "9", "9", "9", "9">>>>

RowRiceCakes ==
    <<<<"R", "i", "c", "e", " ", "C", "a", "k", "e", "s">>, <<"R", "1">>>>

BlankRow == <<>>

PositionalSoup ==
    <<<<"A", "i", "n", "s", "w", "o", "r", "t", "h", "s">>,
      <<"3", "7", "1", "3", "6">>,
      <<"5", "0", "3", "0", "0", "0", "9", "9", "9", "9", "9", "9", "9", ".", "0">>,
      <<"A", "i", "n", "s">>,
      <<"O", "r", "g", "a", "n", "i", "c", " ", "S", "o", "u", "p">>,
      <<"i", "m", "g", ".", "j", "p", "g">>, <<"Y", "e", "s">>,
      <<"N", "o">>>>

PositionalNoName ==
    <<<<"S", "u", "m", "a">>, <<"4", "0", "1", "2", "3">>,
      <<"5", ".", "0", "3", "E", "+", "1", "2">>, <<"S", "u", "m", "a">>,
      <<"n", "/", "a">>, <<"i", "m", "g", ".", "j", "p", "g">>,
      <<"Y", "e", "s">>>>

PositionalOatDrink ==
    <<<<"S", "u", "m", "a">>, <<"4", "0", "1", "2", "4">>,
      <<"5", "0", "3", "0", "0", "0", "9", "9", "9", "9", "9", "9">>,
      <<"S", "u", "m", "a">>,
      <<"O", "a", "t", " ", "D", "r", "i", "n", "k">>>>

CsvRows ==
    {HeaderRowA,
     HeaderRowB,
     RowOatMilk,
     RowSentinelName,
     RowNoName,
     RowRiceCakes,
     BlankRow,
     PositionalSoup,
     PositionalNoName,
     PositionalOatDrink}

CsvFiles == UNION {[1..n -> CsvRows] : n \in 0..MaxRows}

\* process, lines 177-183: no rows at all, or the format of the first row
ReadRows ==
    /\ cpc = "read"
    /\ IF all_rows = <<>>
       THEN /\ csv_error' = "CSV file is empty"
            /\ cpc' = "raised"
            /\ UNCHANGED <<has_headers, row_num>>
       ELSE /\ has_headers' = detect_has_headers(all_rows[1])
            /\ row_num' = IF has_headers' THEN 2 ELSE 1
            /\ cpc' = "rows"
            /\ UNCHANGED csv_error
    /\ UNCHANGED <<all_rows, csv_products, beyondCsv>>

\* the fieldnames csv.DictReader takes from the first row (lines 190-194)
Fieldnames == all_rows[1]

RowsLeft == cpc = "rows" /\ row_num <= Len(all_rows)

\* csv.DictReader passes over a blank line
SkipBlankRow ==
    /\ RowsLeft
    /\ has_headers
    /\ all_rows[row_num] = <<>>
    /\ row_num' = row_num + 1
    /\ UNCHANGED <<all_rows, has_headers, csv_products, cpc, csv_error, beyondCsv>>

\* line 201, outside the try: csv.DictReader puts the cells beyond the last
\* fieldname in a list under the key None, and the list has no strip()
StripRaises ==
    /\ RowsLeft
    /\ has_headers
    /\ Len(all_rows[row_num]) > Len(Fieldnames)
    /\ csv_error' = "AttributeError"
    /\ cpc' = "raised"
    /\ UNCHANGED <<all_rows, has_headers, csv_products, row_num, beyondCsv>>

AppendIfFound(product) ==
    IF product.found THEN Append(csv_products, product) ELSE csv_products

\* lines 199-212: one row of a file with headers
HeaderedRow ==
    /\ RowsLeft
    /\ has_headers
    /\ all_rows[row_num] # <<>>
    /\ Len(all_rows[row_num]) <= Len(Fieldnames)
    /\ csv_products' = AppendIfFound(parse_csv_row(Fieldnames, all_rows[row_num], Category))
    /\ row_num' = row_num + 1
    /\ UNCHANGED <<all_rows, has_headers, cpc, csv_error, beyondCsv>>

\* lines 217-227: one row of a headerless file
HeaderlessRow ==
    /\ RowsLeft
    /\ ~has_headers
    /\ csv_products' = AppendIfFound(parse_headerless_row(all_rows[row_num], Category))
    /\ row_num' = row_num + 1
    /\ UNCHANGED <<all_rows, has_headers, cpc, csv_error, beyondCsv>>

\* lines 229-233
ReturnProducts ==
    /\ cpc = "rows"
    /\ row_num > Len(all_rows)
    /\ IF csv_products = <<>>
       THEN csv_error' = "No valid products found in CSV" /\ cpc' = "raised"
       ELSE csv_error' = csv_error /\ cpc' = "returned"
    /\ UNCHANGED <<all_rows, has_headers, csv_products, row_num, beyondCsv>>

CsvIdle ==
    /\ all_rows = <<>>
    /\ has_headers = FALSE
    /\ csv_products = <<>>
    /\ row_num = 1
    /\ cpc = "idle"
    /\ csv_error = ""

(***************************************************************************)
(* detect_has_headers and clean_barcode called on their own                *)
(***************************************************************************)
DetectCall ==
    /\ hpc = "call"
    /\ detected' = detect_has_headers(given_row)
    /\ hpc' = "detected"
    /\ UNCHANGED <<given_row, beyondHeader>>

HeaderIdle ==
    /\ given_row = <<>>
    /\ detected = FALSE
    /\ hpc = "idle"

CleanCall ==
    /\ bpc = "call"
    /\ cleaned' = clean_barcode(given_barcode)
    /\ bpc' = "again"
    /\ UNCHANGED <<given_barcode, recleaned, beyondBarcode>>

CleanAgainCall ==
    /\ bpc = "again"
    /\ recleaned' = clean_barcode(cleaned)
    /\ bpc' = "cleaned"
    /\ UNCHANGED <<given_barcode, cleaned, beyondBarcode>>

BarcodeIdle ==
    /\ given_barcode = <<>>
    /\ cleaned = <<>>
    /\ recleaned = <<>>
    /\ bpc = "idle"

(***************************************************************************)
(* dietary_detector.detect_dietary_attributes                              *)
(*   - texts are strings as in csv_parser; the list of attributes is a set *)
(***************************************************************************)
Rule(negative_ingredients, positive_markers, requires_explicit_marker) ==
    [negative_ingredients |-> negative_ingredients,
     positive_markers |-> positive_markers,
     requires_explicit_marker |-> requires_explicit_marker]

RULE_Gluten_Free ==
    Rule({<<"w", "h", "e", "a", "t">>, <<"b", "a", "r", "l", "e", "y">>,
          <<"r", "y", "e">>, <<"o", "a", "t", "s">>,
          <<"s", "p", "e", "l", "t">>, <<"k", "a", "m", "u", "t">>,
          <<"t", "r", "i", "t", "i", "c", "a", "l", "e">>,
          <<"s", "e", "m", "o", "l", "i", "n", "a">>,
          <<"d", "u", "r", "u", "m">>, <<"b", "u", "l", "g", "u", "r">>,
          <<"c", "o", "u", "s", "c", "o", "u", "s">>,
          <<"f", "a", "r", "i", "n", "a">>, <<"f", "a", "r", "r", "o">>,
          <<"g", "l", "u", "t", "e", "n">>, <<"s", "e", "i", "t", "a", "n">>,
          <<"m", "a", "l", "t">>,
          <<"b", "r", "e", "w", "e", "r", "'", "s", " ", "y", "e", "a", "s", "t">>},
         {<<"g", "l", "u", "t", "e", "n", " ", "f", "r", "e", "e">>,
          <<"g", "l", "u", "t", "e", "n", "-", "f", "r", "e", "e">>,
          <<"g", "f">>,
          <<"c", "o", "e", "l", "i", "a", "c", " ", "f", "r", "i", "e", "n", "d", "l", "y">>,
          <<"c", "e", "l", "i", "a", "c", " ", "f", "r", "i", "e", "n", "d", "l", "y">>},
         FALSE)

RULE_Vegan ==
    Rule({<<"m", "i", "l", "k">>, <<"d", "a", "i", "r", "y">>,
          <<"c", "r", "e", "a", "m">>, <<"b", "u", "t", "t", "e", "r">>,
          <<"c", "h", "e", "e", "s", "e">>, <<"w", "h", "e", "y">>,
          <<"c", "a", "s", "e", "i", "n">>,
          <<"l", "a", "c", "t", "o", "s", "e">>, <<"g", "h", "e", "e">>,
          <<"y", "o", "g", "h", "u", "r", "t">>,
          <<"y", "o", "g", "u", "r", "t">>, <<"c", "u", "r", "d">>,
          <<"b", "u", "t", "t", "e", "r", "m", "i", "l", "k">>,
          <<"e", "g", "g">>, <<"a", "l", "b", "u", "m", "e", "n">>,
          <<"a", "l", "b", "u", "m", "i", "n">>,
          <<"m", "a", "y", "o", "n", "n", "a", "i", "s", "e">>,
          <<"m", "e", "r", "i", "n", "g", "u", "e">>, <<"m", "e", "a", "t">>,
          <<"b", "e", "e", "f">>, <<"p", "o", "r", "k">>,
          <<"c", "h", "i", "c", "k", "e", "n">>, <<"f", "i", "s", "h">>,
          <<"s", "e", "a", "f", "o", "o", "d">>,
          <<"a", "n", "c", "h", "o", "v", "y">>, <<"p", "r", "a", "w", "n">>,
          <<"s", "h", "r", "i", "m", "p">>, <<"c", "r", "a", "b">>,
          <<"l", "o", "b", "s", "t", "e", "r">>, <<"b", "a", "c", "o", "n">>,
          <<"h", "a", "m">>, <<"l", "a", "r", "d">>,
          <<"t", "a", "l", "l", "o", "w">>, <<"s", "u", "e", "t">>,
          <<"g", "e", "l", "a", "t", "i", "n">>,
          <<"g", "e", "l", "a", "t", "i", "n", "e">>,
          <<"c", "o", "l", "l", "a", "g", "e", "n">>,
          <<"h", "o", "n", "e", "y">>, <<"b", "e", "e", "s", "w", "a", "x">>,
          <<"r", "o", "y", "a", "l", " ", "j", "e", "l", "l", "y">>,
          <<"p", "r", "o", "p", "o", "l", "i", "s">>,
          <<"s", "h", "e", "l", "l", "a", "c">>,
          <<"c", "a", "r", "m", "i", "n", "e">>,
          <<"c", "o", "c", "h", "i", "n", "e", "a", "l">>,
          <<"i", "s", "i", "n", "g", "l", "a", "s", "s">>,
          <<"l", "a", "n", "o", "l", "i", "n">>,
          <<"k", "e", "r", "a", "t", "i", "n">>, <<"s", "i", "l", "k">>,
          <<"w", "o", "o", "l">>},
         {<<"v", "e", "g", "a", "n">>,
          <<"p", "l", "a", "n", "t", "-", "b", "a", "s", "e", "d">>,
          <<"p", "l", "a", "n", "t", " ", "b", "a", "s", "e", "d">>,
          <<"1", "0", "0", "%", " ", "p", "l", "a", "n", "t">>,
          <<"n", "o", " ", "a", "n", "i", "m", "a", "l">>},
         FALSE)

RULE_Vegetarian ==
    Rule({<<"m", "e", "a", "t">>, <<"b", "e", "e", "f">>,
          <<"p", "o", "r", "k">>, <<"c", "h", "i", "c", "k", "e", "n">>,
          <<"f", "i", "s", "h">>, <<"s", "e", "a", "f", "o", "o", "d">>,
          <<"a", "n", "c", "h", "o", "v", "y">>, <<"p", "r", "a", "w", "n">>,
          <<"s", "h", "r", "i", "m", "p">>, <<"c", "r", "a", "b">>,
          <<"l", "o", "b", "s", "t", "e", "r">>, <<"b", "a", "c", "o", "n">>,
          <<"h", "a", "m">>, <<"l", "a", "r", "d">>,
          <<"t", "a", "l", "l", "o", "w">>, <<"s", "u", "e", "t">>,
          <<"g", "e", "l", "a", "t", "i", "n">>,
          <<"g", "e", "l", "a", "t", "i", "n", "e">>,
          <<"c", "o", "l", "l", "a", "g", "e", "n">>,
          <<"i", "s", "i", "n", "g", "l", "a", "s", "s">>},
         {<<"v", "e", "g", "e", "t", "a", "r", "i", "a", "n">>,
          <<"v", "e", "g", "g", "i", "e">>,
          <<"m", "e", "a", "t", " ", "f", "r", "e", "e">>,
          <<"m", "e", "a", "t", "-", "f", "r", "e", "e">>},
         FALSE)

RULE_Dairy_Free ==
    Rule({<<"m", "i", "l", "k">>, <<"d", "a", "i", "r", "y">>,
          <<"c", "r", "e", "a", "m">>, <<"b", "u", "t", "t", "e", "r">>,
          <<"c", "h", "e", "e", "s", "e">>, <<"w", "h", "e", "y">>,
          <<"c", "a", "s", "e", "i", "n">>,
          <<"l", "a", "c", "t", "o", "s", "e">>, <<"g", "h", "e", "e">>,
          <<"y", "o", "g", "h", "u", "r", "t">>,
          <<"y", "o", "g", "u", "r", "t">>, <<"c", "u", "r", "d">>,
          <<"b", "u", "t", "t", "e", "r", "m", "i", "l", "k">>,
          <<"m", "i", "l", "k", " ", "p", "o", "w", "d", "e", "r">>,
          <<"s", "k", "i", "m", "m", "e", "d", " ", "m", "i", "l", "k">>,
          <<"w", "h", "o", "l", "e", " ", "m", "i", "l", "k">>,
          <<"c", "o", "n", "d", "e", "n", "s", "e", "d", " ", "m", "i", "l", "k">>,
          <<"e", "v", "a", "p", "o", "r", "a", "t", "e", "d", " ", "m", "i", "l", "k">>,
          <<"m", "i", "l", "k", " ", "s", "o", "l", "i", "d", "s">>,
          <<"m", "i", "l", "k", " ", "p", "r", "o", "t", "e", "i", "n">>,
          <<"c", "r", "e", "a", "m", " ", "c", "h", "e", "e", "s", "e">>,
          <<"s", "o", "u", "r", " ", "c", "r", "e", "a", "m">>,
          <<"i", "c", "e", " ", "c", "r", "e", "a", "m">>,
          <<"f", "r", "o", "m", "a", "g", "e">>, <<"q", "u", "a", "r", "k">>},
         {<<"d", "a", "i", "r", "y", " ", "f", "r", "e", "e">>,
          <<"d", "a", "i", "r", "y", "-", "f", "r", "e", "e">>,
          <<"l", "a", "c", "t", "o", "s", "e", " ", "f", "r", "e", "e">>,
          <<"l", "a", "c", "t", "o", "s", "e", "-", "f", "r", "e", "e">>,
          <<"m", "i", "l", "k", " ", "f", "r", "e", "e">>},
         FALSE)

RULE_Nut_Free ==
    Rule({<<"a", "l", "m", "o", "n", "d">>,
          <<"h", "a", "z", "e", "l", "n", "u", "t">>,
          <<"w", "a", "l", "n", "u", "t">>, <<"c", "a", "s", "h", "e", "w">>,
          <<"p", "i", "s", "t", "a", "c", "h", "i", "o">>,
          <<"p", "e", "c", "a", "n">>,
          <<"b", "r", "a", "z", "i", "l", " ", "n", "u", "t">>,
          <<"m", "a", "c", "a", "d", "a", "m", "i", "a">>,
          <<"c", "h", "e", "s", "t", "n", "u", "t">>,
          <<"p", "i", "n", "e", " ", "n", "u", "t">>,
          <<"p", "r", "a", "l", "i", "n", "e">>,
          <<"m", "a", "r", "z", "i", "p", "a", "n">>,
          <<"f", "r", "a", "n", "g", "i", "p", "a", "n", "e">>,
          <<"n", "o", "u", "g", "a", "t">>,
          <<"n", "u", "t", " ", "b", "u", "t", "t", "e", "r">>,
          <<"n", "u", "t", " ", "o", "i", "l">>,
          <<"p", "e", "a", "n", "u", "t">>},
         {<<"n", "u", "t", " ", "f", "r", "e", "e">>,
          <<"n", "u", "t", "-", "f", "r", "e", "e">>,
          <<"t", "r", "e", "e", " ", "n", "u", "t", " ", "f", "r", "e", "e">>,
          <<"p", "e", "a", "n", "u", "t", " ", "f", "r", "e", "e">>},
         FALSE)

RULE_Sugar_Free ==
    Rule({<<"s", "u", "g", "a", "r">>, <<"s", "u", "c", "r", "o", "s", "e">>,
          <<"g", "l", "u", "c", "o", "s", "e">>,
          <<"f", "r", "u", "c", "t", "o", "s", "e">>,
          <<"d", "e", "x", "t", "r", "o", "s", "e">>,
          <<"m", "a", "l", "t", "o", "s", "e">>,
          <<"l", "a", "c", "t", "o", "s", "e">>,
          <<"g", "a", "l", "a", "c", "t", "o", "s", "e">>,
          <<"t", "r", "e", "h", "a", "l", "o", "s", "e">>,
          <<"b", "r", "o", "w", "n", " ", "s", "u", "g", "a", "r">>,
          <<"c", "a", "n", "e", " ", "s", "u", "g", "a", "r">>,
          <<"b", "e", "e", "t", " ", "s", "u", "g", "a", "r">>,
          <<"r", "a", "w", " ", "s", "u", "g", "a", "r">>,
          <<"i", "c", "i", "n", "g", " ", "s", "u", "g", "a", "r">>,
          <<"p", "o", "w", "d", "e", "r", "e", "d", " ", "s", "u", "g", "a", "r">>,
          <<"c", "a", "s", "t", "e", "r", " ", "s", "u", "g", "a", "r">>,
          <<"d", "e", "m", "e", "r", "a", "r", "a">>,
          <<"m", "u", "s", "c", "o", "v", "a", "d", "o">>,
          <<"m", "o", "l", "a", "s", "s", "e", "s">>,
          <<"t", "r", "e", "a", "c", "l", "e">>,
          <<"g", "o", "l", "d", "e", "n", " ", "s", "y", "r", "u", "p">>,
          <<"m", "a", "p", "l", "e", " ", "s", "y", "r", "u", "p">>,
          <<"a", "g", "a", "v", "e">>, <<"h", "o", "n", "e", "y">>,
          <<"c", "o", "r", "n", " ", "s", "y", "r", "u", "p">>,
          <<"h", "i", "g", "h", " ", "f", "r", "u", "c", "t", "o", "s", "e", " ", "c", "o", "r", "n", " ", "s", "y", "r", "u", "p">>,
          <<"h", "f", "c", "s">>,
          <<"i", "n", "v", "e", "r", "t", " ", "s", "u", "g", "a", "r">>},
         {<<"s", "u", "g", "a", "r", " ", "f", "r", "e", "e">>,
          <<"s", "u", "g", "a", "r", "-", "f", "r", "e", "e">>,
          <<"n", "o", " ", "a", "d", "d", "e", "d", " ", "s", "u", "g", "a", "r">>,
          <<"u", "n", "s", "w", "e", "e", "t", "e", "n", "e", "d">>,
          <<"z", "e", "r", "o", " ", "s", "u", "g", "a", "r">>},
         FALSE)

RULE_Seed_Oil_Free ==
    Rule({<<"s", "u", "n", "f", "l", "o", "w", "e", "r", " ", "o", "i", "l">>,
          <<"r", "a", "p", "e", "s", "e", "e", "d", " ", "o", "i", "l">>,
          <<"c", "a", "n", "o", "l", "a", " ", "o", "i", "l">>,
          <<"v", "e", "g", "e", "t", "a", "b", "l", "e", " ", "o", "i", "l">>,
          <<"s", "o", "y", "b", "e", "a", "n", " ", "o", "i", "l">>,
          <<"s", "o", "y", "a", " ", "o", "i", "l">>,
          <<"c", "o", "r", "n", " ", "o", "i", "l">>,
          <<"c", "o", "t", "t", "o", "n", "s", "e", "e", "d", " ", "o", "i", "l">>,
          <<"s", "a", "f", "f", "l", "o", "w", "e", "r", " ", "o", "i", "l">>,
          <<"g", "r", "a", "p", "e", "s", "e", "e", "d", " ", "o", "i", "l">>,
          <<"r", "i", "c", "e", " ", "b", "r", "a", "n", " ", "o", "i", "l">>,
          <<"p", "a", "l", "m", " ", "o", "i", "l">>,
          <<"p", "a", "l", "m", " ", "k", "e", "r", "n", "e", "l", " ", "o", "i", "l">>},
         {<<"s", "e", "e", "d", " ", "o", "i", "l", " ", "f", "r", "e", "e">>,
          <<"n", "o", " ", "s", "e", "e", "d", " ", "o", "i", "l", "s">>},
         FALSE)

RULE_Palm_Oil_Free ==
    Rule({<<"p", "a", "l", "m", " ", "o", "i", "l">>,
          <<"p", "a", "l", "m", " ", "k", "e", "r", "n", "e", "l", " ", "o", "i", "l">>,
          <<"p", "a", "l", "m", " ", "f", "a", "t">>,
          <<"p", "a", "l", "m", "i", "t", "a", "t", "e">>,
          <<"p", "a", "l", "m", "a", "t", "e">>,
          <<"p", "a", "l", "m", " ", "s", "t", "e", "a", "r", "i", "n">>,
          <<"p", "a", "l", "m", " ", "o", "l", "e", "i", "n">>,
          <<"g", "l", "y", "c", "e", "r", "y", "l", " ", "s", "t", "e", "a", "r", "a", "t", "e">>,
          <<"s", "t", "e", "a", "r", "i", "c", " ", "a", "c", "i", "d">>,
          <<"s", "o", "d", "i", "u", "m", " ", "l", "a", "u", "r", "e", "t", "h", " ", "s", "u", "l", "f", "a", "t", "e">>,
          <<"s", "o", "d", "i", "u", "m", " ", "l", "a", "u", "r", "y", "l", " ", "s", "u", "l", "f", "a", "t", "e">>},
         {<<"p", "a", "l", "m", " ", "o", "i", "l", " ", "f", "r", "e", "e">>,
          <<"p", "a", "l", "m", "-", "f", "r", "e", "e">>,
          <<"n", "o", " ", "p", "a", "l", "m", " ", "o", "i", "l">>},
         FALSE)

RULE_Organic ==
    Rule({},
         {<<"o", "r", "g", "a", "n", "i", "c">>,
          <<"c", "e", "r", "t", "i", "f", "i", "e", "d", " ", "o", "r", "g", "a", "n", "i", "c">>,
          <<"s", "o", "i", "l", " ", "a", "s", "s", "o", "c", "i", "a", "t", "i", "o", "n">>,
          <<"o", "f", " ", "c", "e", "r", "t", "i", "f", "i", "e", "d", " ", "o", "r", "g", "a", "n", "i", "c">>},
         TRUE)

RULE_Fairtrade ==
    Rule({},
         {<<"f", "a", "i", "r", "t", "r", "a", "d", "e">>,
          <<"f", "a", "i", "r", " ", "t", "r", "a", "d", "e">>,
          <<"f", "a", "i", "r", "l", "y", " ", "t", "r", "a", "d", "e", "d">>},
         TRUE)

RULE_Raw ==
    Rule({},
         {<<"r", "a", "w">>, <<"u", "n", "r", "o", "a", "s", "t", "e", "d">>,
          <<"u", "n", "c", "o", "o", "k", "e", "d">>,
          <<"c", "o", "l", "d", " ", "p", "r", "e", "s", "s", "e", "d">>},
         TRUE)

RULE_Keto ==
    Rule({<<"s", "u", "g", "a", "r">>, <<"f", "l", "o", "u", "r">>,
          <<"w", "h", "e", "a", "t">>, <<"r", "i", "c", "e">>,
          <<"p", "o", "t", "a", "t", "o">>,
          <<"c", "o", "r", "n", " ", "s", "t", "a", "r", "c", "h">>,
          <<"b", "r", "e", "a", "d">>, <<"p", "a", "s", "t", "a">>,
          <<"c", "e", "r", "e", "a", "l">>, <<"o", "a", "t", "s">>},
         {<<"k", "e", "t", "o">>,
          <<"k", "e", "t", "o", " ", "f", "r", "i", "e", "n", "d", "l", "y">>,
          <<"k", "e", "t", "o", "-", "f", "r", "i", "e", "n", "d", "l", "y">>,
          <<"l", "o", "w", " ", "c", "a", "r", "b">>},
         FALSE)

RULE_Paleo ==
    Rule({<<"d", "a", "i", "r", "y">>, <<"m", "i", "l", "k">>,
          <<"c", "h", "e", "e", "s", "e">>, <<"w", "h", "e", "a", "t">>,
          <<"g", "r", "a", "i", "n">>, <<"l", "e", "g", "u", "m", "e">>,
          <<"b", "e", "a", "n">>, <<"l", "e", "n", "t", "i", "l">>,
          <<"p", "e", "a", "n", "u", "t">>, <<"s", "o", "y">>,
          <<"c", "o", "r", "n">>, <<"p", "o", "t", "a", "t", "o">>,
          <<"s", "u", "g", "a", "r">>, <<"r", "e", "f", "i", "n", "e", "d">>},
         {<<"p", "a", "l", "e", "o">>,
          <<"p", "a", "l", "e", "o", " ", "f", "r", "i", "e", "n", "d", "l", "y">>,
          <<"p", "a", "l", "e", "o", "-", "f", "r", "i", "e", "n", "d", "l", "y">>},
         FALSE)

\* lines 19-159
DIETARY_RULES ==
    [Gluten_Free |-> RULE_Gluten_Free,
     Vegan |-> RULE_Vegan,
     Vegetarian |-> RULE_Vegetarian,
     Dairy_Free |-> RULE_Dairy_Free,
     Nut_Free |-> RULE_Nut_Free,
     Sugar_Free |-> RULE_Sugar_Free,
     Seed_Oil_Free |-> RULE_Seed_Oil_Free,
     Palm_Oil_Free |-> RULE_Palm_Oil_Free,
     Organic |-> RULE_Organic,
     Fairtrade |-> RULE_Fairtrade,
     Raw |-> RULE_Raw,
     Keto |-> RULE_Keto,
     Paleo |-> RULE_Paleo]

\* the attribute names, as the keys of DIETARY_RULES spell them
AttrName ==
    [Gluten_Free |-> "Gluten Free",
     Vegan |-> "Vegan",
     Vegetarian |-> "Vegetarian",
     Dairy_Free |-> "Dairy Free",
     Nut_Free |-> "Nut Free",
     Sugar_Free |-> "Sugar Free",
     Seed_Oil_Free |-> "Seed Oil Free",
     Palm_Oil_Free |-> "Palm Oil Free",
     Organic |-> "Organic",
     Fairtrade |-> "Fairtrade",
     Raw |-> "Raw",
     Keto |-> "Keto",
     Paleo |-> "Paleo"]

WordChars ==
    DigitChars \cup {"_"} \cup {LowerOf[c] : c \in DOMAIN LowerOf} \cup DOMAIN LowerOf

IsWordAt(text, i) == i >= 1 /\ i <= Len(text) /\ text[i] \in WordChars

\* \b: a word character on exactly one side of the place before text[i]
WordBoundary(text, i) == IsWordAt(text, i - 1) # IsWordAt(text, i)

\* lines 246-260: re.search(r'\b' + re.escape(ingredient) + r'\b', ingredients_text)
ingredient_present(ingredient, ingredients_text) ==
    \E i \in 0..(Len(ingredients_text) - Len(ingredient)) :
        /\ SubSeq(ingredients_text, i + 1, i + Len(ingredient)) = ingredient
        /\ WordBoundary(ingredients_text, i + 1)
        /\ WordBoundary(ingredients_text, i + Len(ingredient) + 1)

RECURSIVE JoinBadges(_)
\* " ".join(badges)
JoinBadges(badges) ==
    IF badges = <<>> THEN <<>>
    ELSE IF Len(badges) = 1 THEN badges[1]
    ELSE badges[1] \o <<" ">> \o JoinBadges(Tail(badges))

\* lines 199-202
AllText(ingredients, product_text, badges) ==
    Lower(ingredients) \o <<" ">> \o Lower(product_text) \o <<" ">> \o Lower(JoinBadges(badges))

\* lines 206-209: marker in all_text
HasMarker(rules, all_text) ==
    \E marker \in rules.positive_markers : Contains(all_text, marker)

\* lines 218-221
HasNegative(rules, ingredients_lower) ==
    \E neg \in rules.negative_ingredients : ingredient_present(neg, ingredients_lower)

\* Mutant: an empty ingredient list qualifies as well
RuleAdds_EmptyToo(rules, ingredients, product_text, badges) ==
    LET all_text == AllText(ingredients, product_text, badges)
        ingredients_lower == Lower(ingredients)
    IN IF rules.requires_explicit_marker
       THEN HasMarker(rules, all_text)
       ELSE \/ HasMarker(rules, all_text)
            \/ /\ ~HasNegative(rules, ingredients_lower)
               /\ rules.negative_ingredients # {}

\* lines 204-230: whether the loop appends the attribute of these rules
RuleAdds(rules, ingredients, product_text, badges) ==
    LET all_text == AllText(ingredients, product_text, badges)
        ingredients_lower == Lower(ingredients)
    IN IF rules.requires_explicit_marker
       THEN HasMarker(rules, all_text)
       ELSE \/ HasMarker(rules, all_text)
            \/ /\ ~HasNegative(rules, ingredients_lower)
               /\ ingredients_lower # <<>>
               /\ rules.negative_ingredients # {}

\* lines 237-238: float(sugars) <= 0.5, for a number written without exponent
AtMostHalf(sugars) ==
    LET f == float(sugars)
    IN /\ f.ok
       /\ \/ f.neg
          \/ /\ IntegerDigits(f) = <<"0">>
             /\ \/ f.frac = <<>>
                \/ DigitValue[f.frac[1]] < 5
                \/ f.frac[1] = "5" /\ \A i \in 2..Len(f.frac) : f.frac[i] = "0"

\* lines 233-241: nutrition is the value of its "sugars" key, <<"9", "9", "9">>
\* when the key is missing; has_nutrition is the truth of the dict
SugarFreeByNutrition(has_nutrition, sugars) == has_nutrition /\ AtMostHalf(sugars)

\* lines 180-243
detect_dietary_attributes(ingredients, product_text, badges, has_nutrition, sugars) ==
    {AttrName[a] : a \in {r \in DOMAIN DIETARY_RULES :
                             RuleAdds(DIETARY_RULES[r], ingredients, product_text, badges)}}
        \cup (IF SugarFreeByNutrition(has_nutrition, sugars) THEN {"Sugar Free"} ELSE {})

(***************************************************************************)
(* Ingredient lists, product texts, badges and sugar values                *)
(***************************************************************************)
IngredientTexts ==
    {<<>>,
     <<"w", "a", "t", "e", "r", ",", " ", "s", "u", "g", "a", "r", ",", " ", "c", "o", "c", "o", "a", ",", " ", "s", "a", "l", "t">>,
     <<"w", "a", "t", "e", "r", ",", " ", "s", "u", "g", "a", "r", ",", " ", "m", "i", "l", "k", ",", " ", "c", "o", "c", "o", "a">>,
     <<"s", "t", "r", "a", "w", "b", "e", "r", "r", "i", "e", "s", ",", " ", "s", "u", "g", "a", "r">>,
     <<"O", "r", "g", "a", "n", "i", "c", " ", "o", "a", "t", "s", ",", " ", "s", "e", "a", " ", "s", "a", "l", "t">>,
     <<"c", "o", "a", "t", "e", "d", " ", "p", "e", "a", "n", "u", "t", "s", ",", " ", "p", "a", "l", "m", " ", "o", "i", "l">>,
     <<"r", "a", "w", " ", "c", "a", "c", "a", "o", " ", "n", "i", "b", "s">>}

ProductTexts ==
    {<<>>,
     <<"F", "a", "i", "r", "t", "r", "a", "d", "e", " ", "c", "o", "f", "f", "e", "e", " ", "b", "e", "a", "n", "s">>,
     <<"i", "n", "o", "r", "g", "a", "n", "i", "c", " ", "m", "i", "n", "e", "r", "a", "l", " ", "s", "a", "l", "t", "s">>,
     <<"c", "o", "l", "d", " ", "p", "r", "e", "s", "s", "e", "d", " ", "a", "n", "d", " ", "u", "n", "s", "w", "e", "e", "t", "e", "n", "e", "d">>,
     <<"A", " ", "h", "e", "a", "r", "t", "y", " ", "s", "o", "u", "p">>}

BadgeLists ==
    {<<>>,
     <<<<"O", "r", "g", "a", "n", "i", "c">>>>,
     <<<<"S", "o", "i", "l", " ", "A", "s", "s", "o", "c", "i", "a", "t", "i", "o", "n">>, <<"V", "e", "g", "a", "n">>>>,
     <<<<"F", "a", "i", "r", " ", "T", "r", "a", "d", "e">>>>}

\* nutrition: None or {} (FALSE), or a dict and its sugars ("999" when missing)
Nutritions ==
    {<<FALSE, <<"9", "9", "9">>>>,
     <<TRUE, <<"0", ".", "2">>>>,
     <<TRUE, <<"1", "2">>>>,
     <<TRUE, <<"9", "9", "9">>>>}

\* a call of detect_dietary_attributes and its return
DetectAttributes ==
    /\ dpc = "call"
    /\ diet_attributes' = detect_dietary_attributes(diet_ingredients, diet_product_text,
                                                    diet_badges, diet_nutrition[1],
                                                    diet_nutrition[2])
    /\ dpc' = "detected"
    /\ UNCHANGED <<diet_ingredients, diet_product_text, diet_badges, diet_nutrition,
                   beyondDiet>>

DietIdle ==
    /\ diet_ingredients = <<>>
    /\ diet_product_text = <<>>
    /\ diet_badges = <<>>
    /\ diet_nutrition = <<FALSE, <<>>>>
    /\ diet_attributes = {}
    /\ dpc = "idle"


(***************************************************************************)
(* json.dumps and json.loads, on strings and on lists of strings           *)
(*   - "U+0001" stands for the one character U+0001, a control character   *)
(*     that is no whitespace; newline and tab are control characters that  *)
(*     are whitespace as well                                              *)
(***************************************************************************)
ControlChars == {"\n", "\t", "U+0001"}

\* Mutant: no character is escaped
JsonEscapeChar_Raw(c) == <<c>>

\* json.encoder: ESCAPE_DCT, and \uXXXX for the other characters below U+0020
JsonEscapeChar(c) ==
    CASE c = "\"" -> <<"\\", "\"">>
      [] c = "\\" -> <<"\\", "\\">>
      [] c = "\n" -> <<"\\", "n">>
      [] c = "\t" -> <<"\\", "t">>
      [] c = "U+0001" -> <<"\\", "u", "0", "0", "0", "1">>
      [] OTHER -> <<c>>

\* the least element of a non-empty set of positions
First(positions) == CHOOSE p \in positions : \A q \in positions : p <= q

RECURSIVE JsonEscape(_)
\* the characters that stand for themselves are copied run by run
JsonEscape(s) ==
    LET escaped == {k \in 1..Len(s) : JsonEscapeChar(s[k]) # <<s[k]>>}
    IN IF escaped = {} THEN s
       ELSE LET k == First(escaped)
            IN SubSeq(s, 1, k - 1) \o JsonEscapeChar(s[k])
                  \o JsonEscape(SubSeq(s, k + 1, Len(s)))

\* json.dumps(s, ensure_ascii=False) of a str
JsonString(s) == <<"\"">> \o JsonEscape(s) \o <<"\"">>

RECURSIVE JoinWith(_, _)
\* sep.join(parts)
JoinWith(sep, parts) ==
    IF parts = <<>> THEN <<>>
    ELSE IF Len(parts) = 1 THEN parts[1]
    ELSE parts[1] \o sep \o JoinWith(sep, Tail(parts))

\* json.dumps(cleaned, ensure_ascii=False) of a list of str: separators (', ', ': ')
json_dumps_list(items) ==
    <<"[">> \o JoinWith(<<",", " ">>, [k \in 1..Len(items) |-> JsonString(items[k])])
            \o <<"]">>

JsonFailure == [ok |-> FALSE, value |-> <<>>, next |-> 0]

RECURSIVE ScanJsonString(_, _, _)
\* json.decoder.py_scanstring (strict): the characters from text[i] to the closing
\* quote, escapes decoded; a raw control character and a bad escape are errors.
\* The characters up to the next quote, backslash or control character are taken
\* in one run.
ScanJsonString(text, i, acc) ==
    LET special == {k \in i..Len(text) : text[k] \in {"\"", "\\"} \cup ControlChars}
    IN IF special = {} THEN JsonFailure
       ELSE LET k == First(special)
                run == acc \o SubSeq(text, i, k - 1)
            IN IF text[k] = "\"" THEN [ok |-> TRUE, value |-> run, next |-> k + 1]
               ELSE IF text[k] \in ControlChars THEN JsonFailure
               ELSE IF k + 1 > Len(text) THEN JsonFailure
               ELSE IF text[k + 1] \in {"\"", "\\"}
                    THEN ScanJsonString(text, k + 2, Append(run, text[k + 1]))
               ELSE IF text[k + 1] = "n" THEN ScanJsonString(text, k + 2, Append(run, "\n"))
               ELSE IF text[k + 1] = "t" THEN ScanJsonString(text, k + 2, Append(run, "\t"))
               ELSE IF text[k + 1] = "u" /\ k + 5 <= Len(text)
                       /\ SubSeq(text, k + 2, k + 5) = <<"0", "0", "0", "1">>
                    THEN ScanJsonString(text, k + 6, Append(run, "U+0001"))
               ELSE JsonFailure

\* a JSON string starting at text[i]
ParseJsonString(text, i) ==
    IF i <= Len(text) /\ text[i] = "\"" THEN ScanJsonString(text, i + 1, <<>>)
    ELSE JsonFailure

RECURSIVE SkipWhitespace(_, _)
SkipWhitespace(text, i) ==
    IF i <= Len(text) /\ text[i] \in WhitespaceChars THEN SkipWhitespace(text, i + 1)
    ELSE i

RECURSIVE ParseJsonItems(_, _, _)
\* json.decoder.JSONArray after the first element position: string, then "," or "]"
ParseJsonItems(text, i, acc) ==
    LET s == ParseJsonString(text, i)
        j == SkipWhitespace(text, s.next)
    IN IF ~s.ok \/ j > Len(text) THEN JsonFailure
       ELSE IF text[j] = "]" THEN [ok |-> TRUE, value |-> Append(acc, s.value), next |-> j + 1]
       ELSE IF text[j] = ","
            THEN ParseJsonItems(text, SkipWhitespace(text, j + 1), Append(acc, s.value))
       ELSE JsonFailure

\* a JSON array of strings starting at text[i]
ParseJsonArray(text, i) ==
    IF i > Len(text) \/ text[i] # "[" THEN JsonFailure
    ELSE LET j == SkipWhitespace(text, i + 1)
         IN IF j <= Len(text) /\ text[j] = "]"
            THEN [ok |-> TRUE, value |-> <<>>, next |-> j + 1]
            ELSE ParseJsonItems(text, j, <<>>)

\* json.loads(text) where an array of strings is expected: ok is FALSE for a
\* JSONDecodeError and for any other document
json_loads_list(text) ==
    LET a == ParseJsonArray(text, SkipWhitespace(text, 1))
    IN IF a.ok /\ SkipWhitespace(text, a.next) = Len(text) + 1
       THEN [ok |-> TRUE, value |-> a.value]
       ELSE [ok |-> FALSE, value |-> <<>>]

(***************************************************************************)
(* shopify_mapper.format_list_metafield                                    *)
(***************************************************************************)
\* None, which is no str
NoneItem == <<"None">>

\* line 80: the limit of single_line_text_field
MAX_ITEM_LENGTH == 255

NotControl(c) == c \notin ControlChars

\* line 78: re.sub(r'[\x00-\x1f\x7f-\x9f]', '', text)
WithoutControlChars(text) == SelectSeq(text, NotControl)

\* lines 80-81: if len(text) > 255: text = text[:255]
Capped(text) ==
    IF Len(text) > MAX_ITEM_LENGTH THEN SubSeq(text, 1, MAX_ITEM_LENGTH) ELSE text

\* lines 69-76: the items the loop does not `continue` past
KeptItem(item) == item # NoneItem /\ Strip(item) # <<>>

\* lines 75-82: what is appended for an item that is kept
CleanedItem(item) == Capped(WithoutControlChars(Strip(item)))

\* lines 68-82
CleanedItems(items) ==
    LET kept == SelectSeq(items, KeptItem)
    IN [k \in 1..Len(kept) |-> CleanedItem(kept[k])]

\* lines 53-98
format_list_metafield(items) ==
    IF items = <<>> THEN <<>>
    ELSE LET cleaned_items == CleanedItems(items)
             result == json_dumps_list(cleaned_items)
         IN IF cleaned_items = <<>> THEN <<>>
            ELSE IF ~json_loads_list(result).ok THEN <<>>
            ELSE result

(***************************************************************************)
(* Items of a list metafield                                               *)
(***************************************************************************)
\* an item longer than the limit, and one whose character at the limit is a blank
LongItem == [i \in 1..(MAX_ITEM_LENGTH + 2) |-> "a"]
LongItemWithBlank ==
    [i \in 1..(MAX_ITEM_LENGTH + 2) |-> IF i = MAX_ITEM_LENGTH THEN " " ELSE "a"]

ItemValues ==
    {NoneItem, LongItem, LongItemWithBlank,
     <<>>,
     <<" ", " ">>,
     <<" ", "V", "e", "g", "a", "n", " ">>,
     <<"G", "l", "u", "t", "e", "n", " ", "F", "r", "e", "e">>,
     <<"S", "a", "y", " ", "\"", "h", "i", "\"">>,
     <<"a", "\\", "b">>,
     <<"a", "\n", "b">>,
     <<"U+0001">>,
     <<" ", "a", " ", "U+0001">>,
     <<"\t", "N", "u", "t", " ", "F", "r", "e", "e", "\n">>}

ItemLists == UNION {[1..n -> ItemValues] : n \in 0..MaxItems}

\* format_list_metafield(items) is called and returns the cell
FormatList ==
    /\ lpc = "call"
    /\ list_cell' = format_list_metafield(given_items)
    /\ lpc' = "formatted"
    /\ UNCHANGED <<given_items, list_parsed, beyondList>>

\* the importer reads the cell: json.loads of a cell that is not empty
ParseListCell ==
    /\ lpc = "formatted"
    /\ list_parsed' = IF list_cell = <<>> THEN [ok |-> FALSE, value |-> <<>>]
                       ELSE json_loads_list(list_cell)
    /\ lpc' = "parsed"
    /\ UNCHANGED <<given_items, list_cell, beyondList>>

ListIdle ==
    /\ given_items = <<>>
    /\ list_cell = <<>>
    /\ list_parsed = [ok |-> FALSE, value |-> <<>>]
    /\ lpc = "idle"


(***************************************************************************)
(* shopify_mapper.format_rich_text_metafield                               *)
(***************************************************************************)
RECURSIVE StripTags(_)
\* line 123: re.sub(r'<[^>]+>', ' ', text); a tag is "<", one or more characters
\* other than ">", and the first ">" after them
StripTags(text) ==
    IF text = <<>> THEN <<>>
    ELSE LET closing == {j \in 2..Len(text) : text[j] = ">"}
             j == CHOOSE c \in closing : \A d \in closing : c <= d
         IN IF text[1] = "<" /\ closing # {} /\ j > 2
            THEN <<" ">> \o StripTags(SubSeq(text, j + 1, Len(text)))
            ELSE <<text[1]>> \o StripTags(Tail(text))

RECURSIVE CollapseWhitespace(_)
\* re.sub(r'\s+', ' ', text)
CollapseWhitespace(text) ==
    IF text = <<>> THEN <<>>
    ELSE IF text[1] \notin WhitespaceChars
         THEN <<text[1]>> \o CollapseWhitespace(Tail(text))
    ELSE IF Len(text) > 1 /\ text[2] \in WhitespaceChars
         THEN CollapseWhitespace(Tail(text))
    ELSE <<" ">> \o CollapseWhitespace(Tail(text))

\* line 126: re.sub(r'\s+', ' ', plain_text).strip()
NormalizeWhitespace(text) == Strip(CollapseWhitespace(text))

NotOtherControl(c) == c \notin (ControlChars \ WhitespaceChars)

\* line 132: re.sub(r'[\x00-\x08\x0b\x0c\x0e-\x1f\x7f-\x9f]', '', plain_text),
\* which leaves tab and newline in
WithoutOtherControlChars(text) == SelectSeq(text, NotOtherControl)

RECURSIVE Split(_, _)
\* text.split(sep) for a one-character sep
Split(text, sep) ==
    LET at == {j \in 1..Len(text) : text[j] = sep}
        j == CHOOSE c \in at : \A d \in at : c <= d
    IN IF at = {} THEN <<text>>
       ELSE <<SubSeq(text, 1, j - 1)>> \o Split(SubSeq(text, j + 1, Len(text)), sep)

NotBlank(p) == Strip(p) # <<>>

\* lines 123-138: plain_text and the paragraphs cut out of it
Paragraphs(text) ==
    LET plain_text == WithoutOtherControlChars(NormalizeWhitespace(StripTags(text)))
        lines == SelectSeq(Split(plain_text, "\n"), NotBlank)
        paragraphs == [k \in 1..Len(lines) |-> Strip(lines[k])]
    IN IF paragraphs = <<>> THEN <<plain_text>> ELSE paragraphs

RootOpen ==
    <<"{", "\"", "t", "y", "p", "e", "\"", ":", "\"", "r", "o", "o", "t",
      "\"", ",", "\"", "c", "h", "i", "l", "d", "r", "e", "n", "\"", ":",
      "[">>

RootClose ==
    <<"]", "}">>

ParagraphOpen ==
    <<"{", "\"", "t", "y", "p", "e", "\"", ":", "\"", "p", "a", "r", "a",
      "g", "r", "a", "p", "h", "\"", ",", "\"", "c", "h", "i", "l", "d", "r",
      "e", "n", "\"", ":", "[", "{", "\"", "t", "y", "p", "e", "\"", ":",
      "\"", "t", "e", "x", "t", "\"", ",", "\"", "v", "a", "l", "u", "e",
      "\"", ":">>

ParagraphClose ==
    <<"}", "]", "}">>

\* lines 142-153: one paragraph node holding one text node
ParagraphJson(para) == ParagraphOpen \o JsonString(para) \o ParagraphClose

\* lines 158-165: json.dumps(rich_text, ensure_ascii=False, separators=(',', ':'))
json_dumps_rich_text(children) ==
    RootOpen \o JoinWith(<<",">>, [k \in 1..Len(children) |-> ParagraphJson(children[k])])
             \o RootClose

StartsWith(text, i, prefix) ==
    i + Len(prefix) - 1 <= Len(text) /\ SubSeq(text, i, i + Len(prefix) - 1) = prefix

RECURSIVE ParseParagraphs(_, _, _)
\* the paragraph nodes of a compact rich-text document from text[i] on
ParseParagraphs(text, i, acc) ==
    IF ~StartsWith(text, i, ParagraphOpen) THEN JsonFailure
    ELSE LET s == ParseJsonString(text, i + Len(ParagraphOpen))
         IN IF ~s.ok \/ ~StartsWith(text, s.next, ParagraphClose) THEN JsonFailure
            ELSE LET j == s.next + Len(ParagraphClose)
                 IN IF StartsWith(text, j, RootClose) /\ j + Len(RootClose) = Len(text) + 1
                    THEN [ok |-> TRUE, value |-> Append(acc, s.value), next |-> Len(text) + 1]
                    ELSE IF StartsWith(text, j, <<",">>)
                    THEN ParseParagraphs(text, j + 1, Append(acc, s.value))
                    ELSE JsonFailure

\* json.loads(text) where a compact rich-text document is expected: its type is
\* "root" and value holds the text of each paragraph child, in order; ok is FALSE
\* for a JSONDecodeError and for any other document
json_loads_rich_text(text) ==
    IF text = RootOpen \o RootClose THEN [ok |-> TRUE, value |-> <<>>]
    ELSE IF ~StartsWith(text, 1, RootOpen) THEN [ok |-> FALSE, value |-> <<>>]
    ELSE LET p == ParseParagraphs(text, Len(RootOpen) + 1, <<>>)
         IN [ok |-> p.ok, value |-> p.value]

NotEmpty(para) == para # <<>>

\* lines 101-179
format_rich_text_metafield(text) ==
    IF text = <<>> THEN <<>>
    ELSE IF NormalizeWhitespace(StripTags(text)) = <<>> THEN <<>>
    ELSE LET children == SelectSeq(Paragraphs(text), NotEmpty)
             result == json_dumps_rich_text(children)
             parsed == json_loads_rich_text(result)
         IN IF children = <<>> THEN <<>>
            ELSE IF ~parsed.ok \/ parsed.value = <<>> THEN <<>>
            ELSE result

(***************************************************************************)
(* Texts of a rich-text metafield                                          *)
(***************************************************************************)
TextPieces ==
    {<<"L", "i", "n", "e", " ", "o", "n", "e">>,
     <<"L", "i", "n", "e", " ", "t", "w", "o">>,
     <<"\n">>,
     <<" ">>,
     <<"<", "p", ">">>,
     <<"<", "/", "p", ">">>,
     <<"<">>,
     <<"\"", "h", "i", "\"">>,
     <<"U+0001">>}

RECURSIVE Concat(_)
Concat(parts) == IF parts = <<>> THEN <<>> ELSE Head(parts) \o Concat(Tail(parts))

RichTexts == {Concat(parts) : parts \in UNION {[1..n -> TextPieces] : n \in 0..MaxPieces}}

\* format_rich_text_metafield(text) is called and returns the cell
FormatRichText ==
    /\ rpc = "call"
    /\ rich_cell' = format_rich_text_metafield(given_text)
    /\ rpc' = "formatted"
    /\ UNCHANGED <<given_text, rich_parsed, beyondRich>>

\* the importer reads the cell: json.loads of a cell that is not empty
ParseRichCell ==
    /\ rpc = "formatted"
    /\ rich_parsed' = IF rich_cell = <<>> THEN [ok |-> FALSE, value |-> <<>>]
                       ELSE json_loads_rich_text(rich_cell)
    /\ rpc' = "parsed"
    /\ UNCHANGED <<given_text, rich_cell, beyondRich>>

RichIdle ==
    /\ given_text = <<>>
    /\ rich_cell = <<>>
    /\ rich_parsed = [ok |-> FALSE, value |-> <<>>]
    /\ rpc = "idle"


(***************************************************************************)
(* utils/inventory_matcher.py                                              *)
(*   - an inventory record is a row of the Shopify export: every column is *)
(*     a string; a product is a dict whose missing keys are empty strings  *)
(***************************************************************************)
InventoryRecord(id, handle, title, sku, barcode) ==
    [ID |-> id, Handle |-> handle, Title |-> title, Variant_SKU |-> sku,
     Variant_Barcode |-> barcode]

MatchDraft(barcode, ean, sku, name) ==
    [barcode |-> barcode, ean |-> ean, sku |-> sku, name |-> name,
     shopify_id |-> <<>>, shopify_handle |-> <<>>, matched_in_inventory |-> FALSE]

\* lines 66-90: index[...][key] = product for every record whose key is not
\* empty; a later record of the same key replaces the earlier one
IndexBy(inventory, Key(_)) ==
    LET keys == {Key(inventory[k]) : k \in 1..Len(inventory)} \ {<<>>}
    IN [key \in keys |->
           inventory[CHOOSE k \in 1..Len(inventory) :
                        /\ Key(inventory[k]) = key
                        /\ \A j \in 1..Len(inventory) : Key(inventory[j]) = key => j <= k]]

HandleKey(product) == Lower(Strip(product.Handle))
BarcodeKey(product) == Strip(product.Variant_Barcode)
SkuKey(product) == Strip(product.Variant_SKU)
TitleKey(product) == Lower(Strip(product.Title))
IdKey(product) == Strip(product.ID)

\* lines 48-95
build_lookup_index(inventory) ==
    [by_handle |-> IndexBy(inventory, HandleKey),
     by_barcode |-> IndexBy(inventory, BarcodeKey),
     by_sku |-> IndexBy(inventory, SkuKey),
     by_title |-> IndexBy(inventory, TitleKey),
     by_id |-> IndexBy(inventory, IdKey)]

EmptyIndex == build_lookup_index(<<>>)

\* no record: existing = None
NoRecord == InventoryRecord(<<"None">>, <<>>, <<>>, <<>>, <<>>)

\* Mutant: the SKU is tried before the barcode
FindExisting_SkuFirst(index, product) ==
    LET barcode == IF product.barcode # <<>> THEN product.barcode ELSE product.ean
        sku == product.sku
        name == product.name
        name_lower == Lower(Strip(name))
    IN IF sku # <<>> /\ sku \in DOMAIN index.by_sku
       THEN index.by_sku[sku]
       ELSE IF barcode # <<>> /\ barcode \in DOMAIN index.by_barcode
       THEN index.by_barcode[barcode]
       ELSE IF name # <<>> /\ name_lower \in DOMAIN index.by_title
       THEN index.by_title[name_lower]
       ELSE NoRecord

\* lines 167-181
FindExisting(index, product) ==
    LET barcode == IF product.barcode # <<>> THEN product.barcode ELSE product.ean
        sku == product.sku
        name == product.name
        name_lower == Lower(Strip(name))
    IN IF barcode # <<>> /\ barcode \in DOMAIN index.by_barcode
       THEN index.by_barcode[barcode]
       ELSE IF sku # <<>> /\ sku \in DOMAIN index.by_sku
       THEN index.by_sku[sku]
       ELSE IF name # <<>> /\ name_lower \in DOMAIN index.by_title
       THEN index.by_title[name_lower]
       ELSE NoRecord

\* lines 183-189
WithMatch(product, existing) ==
    IF existing # NoRecord
    THEN [product EXCEPT !.shopify_id = existing.ID,
                         !.shopify_handle = existing.Handle,
                         !.matched_in_inventory = TRUE]
    ELSE [product EXCEPT !.matched_in_inventory = FALSE]

(***************************************************************************)
(* Inventories and products to match                                       *)
(***************************************************************************)
InventoryRecords ==
    {InventoryRecord(<<"1", "0", "1">>, <<"o", "a", "t", "-", "m", "i", "l", "k">>, <<" ", "O", "a", "t", " ", "M", "i", "l", "k", " ">>, <<"Q", "1">>, <<" ", "5", "0", " ">>),
     InventoryRecord(<<"1", "0", "2">>, <<"R", "i", "c", "e", "-", "C", "a", "k", "e", "s">>, <<"R", "I", "C", "E", " ", "C", "A", "K", "E", "S">>, <<"Q", "2">>, <<>>),
     InventoryRecord(<<"1", "0", "3">>, <<"o", "a", "t", "-", "d", "r", "i", "n", "k">>, <<"o", "a", "t", " ", "m", "i", "l", "k">>, <<"Q", "1">>, <<"5", "1">>),
     InventoryRecord(<<>>, <<>>, <<>>, <<>>, <<>>)}

Inventories == UNION {[1..n -> InventoryRecords] : n \in 0..MaxRecords}

MatchDrafts ==
    {MatchDraft(<<"5", "0">>, <<>>, <<"Q", "2">>, <<"S", "o", "u", "p">>),
     MatchDraft(<<"9", "9">>, <<>>, <<"Q", "2">>, <<"O", "a", "t", " ", "M", "i", "l", "k">>),
     MatchDraft(<<>>, <<"5", "1">>, <<>>, <<>>),
     MatchDraft(<<>>, <<>>, <<"Q", "9">>, <<" ", "o", "a", "t", " ", "M", "I", "L", "K">>),
     MatchDraft(<<"9", "9">>, <<>>, <<"Q", "9">>, <<"S", "o", "u", "p">>),
     MatchDraft(<<>>, <<>>, <<>>, <<>>)}

MatchLists == UNION {[1..n -> MatchDrafts] : n \in 0..MaxMatched}

\* line 163: index = build_lookup_index(inventory)
BuildIndex ==
    /\ xpc = "build"
    /\ lookup_index' = build_lookup_index(given_inventory)
    /\ xpc' = "match"
    /\ UNCHANGED <<given_inventory, match_products, match_inputs, xidx, beyondMatch>>

\* lines 166-189: one turn of the loop
MatchProduct ==
    /\ xpc = "match"
    /\ xidx <= Len(match_products)
    /\ match_products' =
          [match_products EXCEPT
              ![xidx] = WithMatch(@, FindExisting(lookup_index, match_products[xidx]))]
    /\ xidx' = xidx + 1
    /\ UNCHANGED <<given_inventory, match_inputs, lookup_index, xpc, beyondMatch>>

\* lines 191-192: return products
MatchReturn ==
    /\ xpc = "match"
    /\ xidx > Len(match_products)
    /\ xpc' = "returned"
    /\ UNCHANGED <<given_inventory, match_products, match_inputs, lookup_index, xidx,
                   beyondMatch>>

MatchIdle ==
    /\ given_inventory = <<>>
    /\ match_products = <<>>
    /\ match_inputs = <<>>
    /\ lookup_index = EmptyIndex
    /\ xidx = 1
    /\ xpc = "idle"

(***************************************************************************)
(* A CSV row through ingestion, enrichment and export                      *)
(* csv_parser.parse_csv_row, product_enricher.enrich_product,              *)
(* shopify_mapper.map_to_shopify_csv                                       *)
(***************************************************************************)
\* csv_parser.is_yes_value, lines 428-433; U+2713 and U+2714 are the check marks
YesValues ==
    {<<"y", "e", "s">>, <<"t", "r", "u", "e">>, <<"1">>, <<"y">>, <<"x">>,
     <<"U+2713">>, <<"U+2714">>}

is_yes_value(value) == value # <<>> /\ Lower(Strip(value)) \in YesValues

\* csv_parser.is_no_value, lines 436-441
NoValues ==
    {<<"n", "o">>, <<"f", "a", "l", "s", "e">>, <<"0">>, <<"n">>, <<"-">>}

is_no_value(value) == value # <<>> /\ Lower(Strip(value)) \in NoValues

\* extract_dietary_from_csv, lines 353-410, in the order of the dict
dietary_columns ==
    <<[column |-> <<"O", "r", "g", "a", "n", "i", "c">>, label |-> "Organic"],
     [column |-> <<"o", "r", "g", "a", "n", "i", "c">>, label |-> "Organic"],
     [column |-> <<"I", "s", " ", "O", "r", "g", "a", "n", "i", "c">>, label |-> "Organic"],
     [column |-> <<"i", "s", "_", "o", "r", "g", "a", "n", "i", "c">>, label |-> "Organic"],
     [column |-> <<"G", "l", "u", "t", "e", "n", " ", "F", "r", "e", "e">>, label |-> "Gluten Free"],
     [column |-> <<"g", "l", "u", "t", "e", "n", "_", "f", "r", "e", "e">>, label |-> "Gluten Free"],
     [column |-> <<"G", "l", "u", "t", "e", "n", "-", "F", "r", "e", "e">>, label |-> "Gluten Free"],
     [column |-> <<"G", "l", "u", "t", "e", "n", "F", "r", "e", "e">>, label |-> "Gluten Free"],
     [column |-> <<"V", "e", "g", "a", "n">>, label |-> "Vegan"],
     [column |-> <<"v", "e", "g", "a", "n">>, label |-> "Vegan"],
     [column |-> <<"I", "s", " ", "V", "e", "g", "a", "n">>, label |-> "Vegan"],
     [column |-> <<"i", "s", "_", "v", "e", "g", "a", "n">>, label |-> "Vegan"],
     [column |-> <<"V", "e", "g", "e", "t", "a", "r", "i", "a", "n">>, label |-> "Vegetarian"],
     [column |-> <<"v", "e", "g", "e", "t", "a", "r", "i", "a", "n">>, label |-> "Vegetarian"],
     [column |-> <<"I", "s", " ", "V", "e", "g", "e", "t", "a", "r", "i", "a", "n">>, label |-> "Vegetarian"],
     [column |-> <<"D", "a", "i", "r", "y", " ", "F", "r", "e", "e">>, label |-> "Dairy Free"],
     [column |-> <<"d", "a", "i", "r", "y", "_", "f", "r", "e", "e">>, label |-> "Dairy Free"],
     [column |-> <<"D", "a", "i", "r", "y", "-", "F", "r", "e", "e">>, label |-> "Dairy Free"],
     [column |-> <<"D", "a", "i", "r", "y", "F", "r", "e", "e">>, label |-> "Dairy Free"],
     [column |-> <<"N", "u", "t", " ", "F", "r", "e", "e">>, label |-> "Nut Free"],
     [column |-> <<"n", "u", "t", "_", "f", "r", "e", "e">>, label |-> "Nut Free"],
     [column |-> <<"N", "u", "t", "-", "F", "r", "e", "e">>, label |-> "Nut Free"],
     [column |-> <<"N", "u", "t", "F", "r", "e", "e">>, label |-> "Nut Free"],
     [column |-> <<"S", "u", "g", "a", "r", " ", "F", "r", "e", "e">>, label |-> "Sugar Free"],
     [column |-> <<"s", "u", "g", "a", "r", "_", "f", "r", "e", "e">>, label |-> "Sugar Free"],
     [column |-> <<"S", "u", "g", "a", "r", "-", "F", "r", "e", "e">>, label |-> "Sugar Free"],
     [column |-> <<"S", "u", "g", "a", "r", "F", "r", "e", "e">>, label |-> "Sugar Free"],
     [column |-> <<"S", "e", "e", "d", " ", "O", "i", "l", " ", "F", "r", "e", "e">>, label |-> "Seed Oil Free"],
     [column |-> <<"s", "e", "e", "d", "_", "o", "i", "l", "_", "f", "r", "e", "e">>, label |-> "Seed Oil Free"],
     [column |-> <<"R", "a", "w">>, label |-> "Raw"],
     [column |-> <<"r", "a", "w">>, label |-> "Raw"],
     [column |-> <<"K", "e", "t", "o">>, label |-> "Keto"],
     [column |-> <<"k", "e", "t", "o">>, label |-> "Keto"],
     [column |-> <<"P", "a", "l", "e", "o">>, label |-> "Paleo"],
     [column |-> <<"p", "a", "l", "e", "o">>, label |-> "Paleo"]>>
\* the text of every dietary tag
TagText ==
    ("Dairy Free" :> <<"D", "a", "i", "r", "y", " ", "F", "r", "e", "e">>) @@
    ("Fairtrade" :> <<"F", "a", "i", "r", "t", "r", "a", "d", "e">>) @@
    ("Gluten Free" :> <<"G", "l", "u", "t", "e", "n", " ", "F", "r", "e", "e">>) @@
    ("Keto" :> <<"K", "e", "t", "o">>) @@
    ("Nut Free" :> <<"N", "u", "t", " ", "F", "r", "e", "e">>) @@
    ("Organic" :> <<"O", "r", "g", "a", "n", "i", "c">>) @@
    ("Paleo" :> <<"P", "a", "l", "e", "o">>) @@
    ("Palm Oil Free" :> <<"P", "a", "l", "m", " ", "O", "i", "l", " ", "F", "r", "e", "e">>) @@
    ("Raw" :> <<"R", "a", "w">>) @@
    ("Seed Oil Free" :> <<"S", "e", "e", "d", " ", "O", "i", "l", " ", "F", "r", "e", "e">>) @@
    ("Sugar Free" :> <<"S", "u", "g", "a", "r", " ", "F", "r", "e", "e">>) @@
    ("Vegan" :> <<"V", "e", "g", "a", "n">>) @@
    ("Vegetarian" :> <<"V", "e", "g", "e", "t", "a", "r", "i", "a", "n">>)
\* the tags in the order sorted() gives them
SortedTags ==
    <<"Dairy Free", "Fairtrade", "Gluten Free", "Keto", "Nut Free", "Organic", "Paleo", "Palm Oil Free", "Raw", "Seed Oil Free", "Sugar Free", "Vegan", "Vegetarian">>
\* tag in a list of tags
InList(tag, tags) == \E k \in 1..Len(tags) : tags[k] = tag

RECURSIVE YesLabels(_, _, _)
\* extract_dietary_from_csv, lines 412-416: the labels of the Yes columns, once each
YesLabels(fieldnames, row, k) ==
    IF k = 0 THEN <<>>
    ELSE LET dietary == YesLabels(fieldnames, row, k - 1)
             value == RowGet(fieldnames, row, dietary_columns[k].column)
         IN IF value # <<>> /\ is_yes_value(value)
                /\ ~InList(dietary_columns[k].label, dietary)
            THEN Append(dietary, dietary_columns[k].label)
            ELSE dietary

\* extract_dietary_from_csv, lines 338-425
extract_dietary_from_csv(fieldnames, row) ==
    LET dietary == YesLabels(fieldnames, row, Len(dietary_columns))
        dairy_value == FirstTruthy(fieldnames, row,
                                   <<<<"D", "a", "i", "r", "y">>, <<"d", "a", "i", "r", "y">>>>)
    IN IF dairy_value # <<>> /\ is_no_value(dairy_value) /\ ~InList("Dairy Free", dietary)
       THEN Append(dietary, "Dairy Free")
       ELSE dietary

\* parse_csv_row, line 297 and line 292
RomanceKeys ==
    <<<<"R", "o", "m", "a", "n", "c", "e", " ", "C", "o", "p", "y">>,
      <<"r", "o", "m", "a", "n", "c", "e", "_", "c", "o", "p", "y">>,
      <<"R", "o", "m", "a", "n", "c", "e">>,
      <<"r", "o", "m", "a", "n", "c", "e">>,
      <<"L", "o", "n", "g", " ", "D", "e", "s", "c", "r", "i", "p", "t", "i", "o", "n">>,
      <<"l", "o", "n", "g", "_", "d", "e", "s", "c", "r", "i", "p", "t", "i", "o", "n">>,
      <<"d", "e", "t", "a", "i", "l", "e", "d", "_", "d", "e", "s", "c", "r", "i", "p", "t", "i", "o", "n">>>>

IngredientKeys ==
    <<<<"I", "n", "g", "r", "e", "d", "i", "e", "n", "t", "s">>,
      <<"i", "n", "g", "r", "e", "d", "i", "e", "n", "t", "s">>,
      <<"I", "n", "g", "r", "e", "d", "i", "e", "n", "t">>,
      <<"i", "n", "g", "r", "e", "d", "i", "e", "n", "t">>,
      <<"c", "o", "n", "t", "e", "n", "t", "s">>,
      <<"c", "o", "m", "p", "o", "s", "i", "t", "i", "o", "n">>>>

\* extract_icons_from_csv, line 682
IconTextKeys ==
    <<<<"D", "e", "s", "c", "r", "i", "p", "t", "i", "o", "n">>,
      <<"d", "e", "s", "c", "r", "i", "p", "t", "i", "o", "n">>,
      <<"R", "o", "m", "a", "n", "c", "e", " ", "C", "o", "p", "y">>,
      <<"r", "o", "m", "a", "n", "c", "e", "_", "c", "o", "p", "y">>,
      <<"L", "o", "n", "g", " ", "D", "e", "s", "c", "r", "i", "p", "t", "i", "o", "n">>>>

PalmOilCols ==
    <<<<"P", "a", "l", "m", " ", "O", "i", "l", " ", "F", "r", "e", "e">>,
      <<"p", "a", "l", "m", "_", "o", "i", "l", "_", "f", "r", "e", "e">>,
      <<"P", "a", "l", "m", "-", "O", "i", "l", "-", "F", "r", "e", "e">>,
      <<"P", "a", "l", "m", "O", "i", "l", "F", "r", "e", "e">>>>

FairtradeCols ==
    <<<<"F", "a", "i", "r", "t", "r", "a", "d", "e">>,
      <<"f", "a", "i", "r", "t", "r", "a", "d", "e">>,
      <<"F", "a", "i", "r", " ", "T", "r", "a", "d", "e">>,
      <<"f", "a", "i", "r", "_", "t", "r", "a", "d", "e">>,
      <<"F", "a", "i", "r", "T", "r", "a", "d", "e">>>>

\* row.get(col) and is_yes_value(row.get(col, '')) for one of the columns
AnyYes(fieldnames, row, cols) ==
    \E k \in 1..Len(cols) : is_yes_value(RowGet(fieldnames, row, cols[k]))

\* word at text[i + 1 ..] then any run of whitespace, then the next word
FollowedBy(text, i, first, second) ==
    /\ i + Len(first) <= Len(text)
    /\ SubSeq(text, i + 1, i + Len(first)) = first
    /\ \E gap \in 0..(Len(text) - i - Len(first) - Len(second)) :
          /\ \A g \in 1..gap : text[i + Len(first) + g] \in WhitespaceChars
          /\ SubSeq(text, i + Len(first) + gap + 1,
                    i + Len(first) + gap + Len(second)) = second
          /\ WordBoundary(text, i + Len(first) + gap + Len(second) + 1)

\* re.search(r'\b(fairtrade|fair[\s-]?trade|rainforest\s*alliance)\b', text)
FairtradePattern(text) ==
    \/ ingredient_present(<<"f", "a", "i", "r", "t", "r", "a", "d", "e">>, text)
    \/ \E sep \in WhitespaceChars \cup {"-"} :
          ingredient_present(<<"f", "a", "i", "r", sep, "t", "r", "a", "d", "e">>, text)
    \/ \E i \in 0..Len(text) :
          /\ WordBoundary(text, i + 1)
          /\ FollowedBy(text, i, <<"r", "a", "i", "n", "f", "o", "r", "e", "s", "t">>,
                        <<"a", "l", "l", "i", "a", "n", "c", "e">>)

\* extract_icons_from_csv, lines 675-686
IconText(fieldnames, row, product) ==
    LET fields == <<product.romance_copy, product.ingredients>>
                      \o [k \in 1..Len(IconTextKeys) |->
                              RowGet(fieldnames, row, IconTextKeys[k])]
    IN Lower(JoinWith(<<" ">>, SelectSeq(fields, NotEmpty)))

\* extract_icons_from_csv, lines 651-740
extract_icons_from_csv(fieldnames, row, product) ==
    LET combined_text == IconText(fieldnames, row, product)
        dietary == product.dietary
        palm == AnyYes(fieldnames, row, PalmOilCols)
                    \/ Contains(combined_text, Lower(TagText["Palm Oil Free"]))
                    \/ Contains(combined_text,
                                <<"p", "a", "l", "m", "-", "o", "i", "l", "-", "f", "r", "e", "e">>)
        organic == \/ InList("Organic", dietary)
                   \/ is_yes_value(RowGet(fieldnames, row, TagText["Organic"]))
                   \/ ingredient_present(Lower(TagText["Organic"]), combined_text)
        vegan == \/ InList("Vegan", dietary)
                 \/ is_yes_value(RowGet(fieldnames, row, TagText["Vegan"]))
                 \/ ingredient_present(Lower(TagText["Vegan"]), combined_text)
        fairtrade == AnyYes(fieldnames, row, FairtradeCols) \/ FairtradePattern(combined_text)
    IN (IF palm THEN <<"Palm Oil Free">> ELSE <<>>)
           \o (IF organic THEN <<"Organic">> ELSE <<>>)
           \o (IF vegan THEN <<"Vegan">> ELSE <<>>)
           \o (IF fairtrade THEN <<"Fairtrade">> ELSE <<>>)

NoFlagProduct ==
    [found |-> FALSE, name |-> <<>>, ingredients |-> <<>>, romance_copy |-> <<>>,
     dietary |-> <<>>, icons |-> <<>>]

\* parse_csv_row, lines 236-335: the name, the texts and the tags of the product
IngestRow(fieldnames, row) ==
    LET name == FirstTruthy(fieldnames, row, NameKeys)
        product == [found |-> TRUE, name |-> Strip(name),
                    ingredients |-> extract_csv_field(fieldnames, row, IngredientKeys),
                    romance_copy |-> extract_csv_field(fieldnames, row, RomanceKeys),
                    dietary |-> extract_dietary_from_csv(fieldnames, row),
                    icons |-> <<>>]
    IN IF name = <<>> \/ Strip(name) = <<>> THEN NoFlagProduct
       ELSE [product EXCEPT !.icons = extract_icons_from_csv(fieldnames, row, product)]

\* sorted(set(attributes)), dietary_detector line 243
SortedList(attributes) == SelectSeq(SortedTags, LAMBDA tag : tag \in attributes)

\* enrich_product, lines 185-235: the scraped ingredients before the product's
\* own, the tags detected anew and written over the product's
EnrichedProduct(product, scraped_ingredients, description, badges, has_nutrition, sugars) ==
    LET ingredients_text == IF scraped_ingredients # <<>> THEN scraped_ingredients
                            ELSE product.ingredients
        dietary == SortedList(detect_dietary_attributes(ingredients_text, description,
                                                        badges, has_nutrition, sugars))
    IN [product EXCEPT !.ingredients = ingredients_text, !.dietary = dietary]

\* map_to_shopify_csv, lines 322-324 and 373: a product without generated
\* descriptions exports its own dietary list
DietaryCell(product) ==
    format_list_metafield([k \in 1..Len(product.dietary) |-> TagText[product.dietary[k]]])

(***************************************************************************)
(* The rows of the flag sheet and the answers of the external sources      *)
(***************************************************************************)
FlagFieldnames ==
    <<<<"D", "e", "s", "c", "r", "i", "p", "t", "i", "o", "n">>,
      <<"O", "r", "g", "a", "n", "i", "c">>,
      <<"V", "e", "g", "a", "n">>,
      <<"G", "l", "u", "t", "e", "n", " ", "F", "r", "e", "e">>,
      <<"D", "a", "i", "r", "y">>,
      <<"I", "n", "g", "r", "e", "d", "i", "e", "n", "t", "s">>>>

FlagNames == {<<"O", "a", "t", " ", "M", "i", "l", "k">>, <<>>}
OrganicFlags == {<<"Y", "e", "s">>, <<"N", "o">>, <<>>}
VeganFlags == {<<"x">>, <<>>}
GlutenFlags == {<<"T", "R", "U", "E">>, <<"m", "a", "y", "b", "e">>}
DairyFlags == {<<"N", "o">>, <<"Y", "e", "s">>}
FlagIngredients == {<<>>, <<"o", "a", "t", "s", ",", " ", "w", "a", "t", "e", "r", ",", " ", "s", "e", "a", " ", "s", "a", "l", "t">>}

FlagRows ==
    {<<n, o, v, g, d, i>> : n \in FlagNames, o \in OrganicFlags, v \in VeganFlags,
                            g \in GlutenFlags, d \in DairyFlags, i \in FlagIngredients}

ScrapedIngredients == {<<>>, <<"w", "a", "t", "e", "r", ",", " ", "s", "u", "g", "a", "r", ",", " ", "m", "i", "l", "k", ",", " ", "c", "o", "c", "o", "a">>}
ScrapedDescriptions == {<<>>, <<"R", "a", "i", "n", "f", "o", "r", "e", "s", "t", " ", " ", "A", "l", "l", "i", "a", "n", "c", "e", " ", "c", "o", "c", "o", "a">>}
ScrapedBadges == {<<>>, <<<<"O", "r", "g", "a", "n", "i", "c">>>>}
ScrapedNutritions == {<<FALSE, <<"9", "9", "9">>>>, <<TRUE, <<"0", ".", "2">>>>}

\* parse_csv_row on the row
Ingest ==
    /\ ppc = "row"
    /\ flag_product' = IngestRow(FlagFieldnames, flag_row)
    /\ ingested' = IngestRow(FlagFieldnames, flag_row)
    /\ ppc' = IF IngestRow(FlagFieldnames, flag_row).found THEN "ingested" ELSE "skipped"
    /\ UNCHANGED <<flag_row, dietary_cell, dietary_parsed, beyondFlag>>

\* enrich_product on the product, whatever the sources answer
EnrichIngested(ingredient_answers, descriptions, badge_answers, nutritions) ==
    /\ ppc = "ingested"
    /\ \E si \in ingredient_answers, d \in descriptions, b \in badge_answers,
          n \in nutritions :
          flag_product' = EnrichedProduct(flag_product, si, d, b, n[1], n[2])
    /\ ppc' = "enriched"
    /\ UNCHANGED <<flag_row, ingested, dietary_cell, dietary_parsed, beyondFlag>>

\* map_to_shopify_csv on the enriched product
ExportDietary ==
    /\ ppc = "enriched"
    /\ dietary_cell' = DietaryCell(flag_product)
    /\ ppc' = "exported"
    /\ UNCHANGED <<flag_row, flag_product, ingested, dietary_parsed, beyondFlag>>

\* the importer reads the cell: json.loads of a cell that is not empty
ImportDietary ==
    /\ ppc = "exported"
    /\ dietary_parsed' = IF dietary_cell = <<>> THEN [ok |-> FALSE, value |-> <<>>]
                          ELSE json_loads_list(dietary_cell)
    /\ ppc' = "imported"
    /\ UNCHANGED <<flag_row, flag_product, ingested, dietary_cell, beyondFlag>>

FlagIdle ==
    /\ flag_row = <<>>
    /\ flag_product = NoFlagProduct
    /\ ingested = NoFlagProduct
    /\ dietary_cell = <<>>
    /\ dietary_parsed = [ok |-> FALSE, value |-> <<>>]
    /\ ppc = "idle"

(***************************************************************************)
(* openfoodfacts_service.fetch_nutrition_by_barcode                        *)
(***************************************************************************)
NotSpaceOrDash(c) == c \notin {" ", "-"}

\* line 55: str(barcode).strip().replace(" ", "").replace("-", "")
CleanedForLookup(barcode) == SelectSeq(Strip(barcode), NotSpaceOrDash)

\* Mutant: no upper limit on the length
ValidForLookup_NoUpperLimit(barcode) == IsDigit(barcode) /\ Len(barcode) >= 8

\* line 58: barcode.isdigit() and 8 <= len(barcode) <= 14
ValidForLookup(barcode) == IsDigit(barcode) /\ Len(barcode) >= 8 /\ Len(barcode) <= 14

\* extract_nutrition_from_off, lines 141-184
field_mapping ==
    ("energy-kcal_100g" :> "energy_kcal") @@ ("energy_100g" :> "energy_kj") @@
    ("fat_100g" :> "fat") @@ ("saturated-fat_100g" :> "saturates") @@
    ("carbohydrates_100g" :> "carbohydrates") @@ ("sugars_100g" :> "sugars") @@
    ("fiber_100g" :> "fibre") @@ ("proteins_100g" :> "protein") @@
    ("salt_100g" :> "salt") @@
    ("monounsaturated-fat_100g" :> "monounsaturates") @@
    ("polyunsaturated-fat_100g" :> "polyunsaturates") @@
    ("trans-fat_100g" :> "trans_fat") @@
    ("cholesterol_100g" :> "cholesterol") @@ ("starch_100g" :> "starch") @@
    ("polyols_100g" :> "polyols") @@ ("vitamin-a_100g" :> "vitamin_a") @@
    ("vitamin-c_100g" :> "vitamin_c") @@ ("vitamin-d_100g" :> "vitamin_d") @@
    ("vitamin-e_100g" :> "vitamin_e") @@ ("vitamin-b1_100g" :> "vitamin_b1") @@
    ("vitamin-b2_100g" :> "vitamin_b2") @@
    ("vitamin-b6_100g" :> "vitamin_b6") @@
    ("vitamin-b12_100g" :> "vitamin_b12") @@ ("calcium_100g" :> "calcium") @@
    ("iron_100g" :> "iron") @@ ("magnesium_100g" :> "magnesium") @@
    ("zinc_100g" :> "zinc") @@ ("potassium_100g" :> "potassium") @@
    ("sodium_100g" :> "sodium") @@ ("omega-3-fat_100g" :> "omega_3") @@
    ("omega-6-fat_100g" :> "omega_6")
\* extract_nutrition_from_off, lines 127-214, on the keys of nutriments: every
\* mapped key with a value, and the energy in both units when one is there
\* (the values are numbers and are left out)
extract_nutrition_from_off(nutriments) ==
    LET mapped == {field_mapping[k] : k \in nutriments \cap DOMAIN field_mapping}
    IN IF mapped \cap {"energy_kj", "energy_kcal"} # {}
       THEN mapped \cup {"energy_kj", "energy_kcal"}
       ELSE mapped

\* what the network gives to session.get and response.json(): an exception, or
\* a status and a body; the body is no JSON, JSON that is no object, or an object
HttpAnswer(kind, status, json, found, nutriments, ingredients_text, allergens_tags) ==
    [kind |-> kind, status |-> status, json |-> json, found |-> found,
     nutriments |-> nutriments, ingredients_text |-> ingredients_text,
     allergens_tags |-> allergens_tags]

NoAnswer == HttpAnswer("none", 0, "none", 0, {}, <<>>, <<>>)

\* tag.replace("en:", "").replace("-", " ").title() of the tags that occur
AllergenFromTag == ("en:milk" :> "Milk") @@ ("en:tree-nuts" :> "Tree Nuts")

FetchNone == [kind |-> "none", nutrients |-> {}, barcode |-> <<>>,
              ingredients_from_off |-> <<>>, allergens_from_off |-> <<>>]

\* the exception raised inside the try, "" when none is: the timeout of
\* session.get, a connection error, response.json() on a body that is no JSON
\* (ContentTypeError), data.get on JSON that is no object (AttributeError)
RaisedInTry(answer) ==
    CASE answer.kind = "timeout" -> "TimeoutError"
      [] answer.kind = "client_error" -> "ClientConnectionError"
      [] answer.kind = "response" /\ answer.status = 200 /\ answer.json = "none" ->
             "ContentTypeError"
      [] answer.kind = "response" /\ answer.status = 200 /\ answer.json = "array" ->
             "AttributeError"
      [] OTHER -> ""

\* the subclasses of aiohttp.ClientError and of Exception among them
ClientErrors == {"ClientConnectionError", "ContentTypeError"}
Exceptions == {"TimeoutError", "AttributeError"} \cup ClientErrors

\* lines 116-124: except asyncio.TimeoutError, except aiohttp.ClientError,
\* except Exception, each returning None
Handled(exc) == exc = "TimeoutError" \/ exc \in ClientErrors \/ exc \in Exceptions

\* lines 62-114: the return value when nothing is raised
FetchReturn(barcode, answer) ==
    IF answer.status = 404 THEN FetchNone
    ELSE IF answer.status # 200 THEN FetchNone
    ELSE IF answer.found # 1 THEN FetchNone
    ELSE IF answer.nutriments = {} THEN FetchNone
    ELSE [kind |-> "data",
          nutrients |-> extract_nutrition_from_off(answer.nutriments),
          barcode |-> barcode,
          ingredients_from_off |-> answer.ingredients_text,
          allergens_from_off |-> [k \in 1..Len(answer.allergens_tags) |->
                                     AllergenFromTag[answer.allergens_tags[k]]]]

(***************************************************************************)
(* The barcodes looked up and the answers of the network                   *)
(***************************************************************************)
LookupCores ==
    {<<>>, <<"1", "2", "3", "4", "5", "6", "7">>, <<"5", "0", "3", "0", "0", "0", "0", "9">>, <<"5", "0", "3", "0", "-", "0", "0", "0", "9", " ", "9">>, <<"5", "0", "3", "0", "0", "0", "0", "9", "9", "9", "9", "9", "9">>, <<"1", "2", "3", "4", "5", "6", "7", "8", "9", "0", "1", "2", "3", "4">>, <<"1", "2", "3", "4", "5", "6", "7", "8", "9", "0", "1", "2", "3", "4", "5">>, <<"5", "0", "3", "0", "0", "0", "0", "9", "9", "9", "9", "9", "9", ".", "0">>, <<"A", "B", "C", "1", "2", "3", "4", "5">>, <<"-", " ", "-">>}

LookupMargins == {<<>>, <<" ">>, <<"\n">>}

LookupBarcodes == {m \o core \o m : m \in LookupMargins, core \in LookupCores}

HttpAnswers ==
    {HttpAnswer("timeout", 0, "none", 0, {}, <<>>, <<>>),
     HttpAnswer("client_error", 0, "none", 0, {}, <<>>, <<>>),
     HttpAnswer("response", 404, "object", 0, {}, <<>>, <<>>),
     HttpAnswer("response", 500, "none", 0, {}, <<>>, <<>>),
     HttpAnswer("response", 200, "none", 0, {}, <<>>, <<>>),
     HttpAnswer("response", 200, "array", 0, {}, <<>>, <<>>),
     HttpAnswer("response", 200, "object", 0, {}, <<>>, <<>>)}
    \cup {HttpAnswer("response", 200, "object", 1, n, i, a) :
            n \in {{}, {"nova-group"}, {"energy_100g", "sugars_100g"}},
            i \in {<<>>, <<"o", "a", "t", "s", ",", " ", "w", "a", "t", "e", "r">>},
            a \in {<<>>, <<"en:milk", "en:tree-nuts">>}}

\* lines 50-61: the guards before the request, and the request
FetchCall ==
    /\ fpc = "call"
    /\ LET barcode == CleanedForLookup(fetch_barcode)
       IN IF fetch_barcode = <<>> \/ ~ValidForLookup(barcode)
          THEN /\ fetch_result' = FetchNone
               /\ fpc' = "returned"
               /\ UNCHANGED http_requests
          ELSE /\ http_requests' = Append(http_requests, barcode)
               /\ fpc' = "request"
               /\ UNCHANGED fetch_result
    /\ UNCHANGED <<fetch_barcode, http_answer, fetch_raised, beyondFetch>>

\* lines 62-124: the network answers and the function returns
FetchAnswer(answers) ==
    /\ fpc = "request"
    /\ \E answer \in answers :
          /\ http_answer' = answer
          /\ IF RaisedInTry(answer) = ""
             THEN /\ fetch_result' = FetchReturn(http_requests[Len(http_requests)], answer)
                  /\ fetch_raised' = FALSE
                  /\ fpc' = "returned"
             ELSE IF Handled(RaisedInTry(answer))
             THEN /\ fetch_result' = FetchNone
                  /\ fetch_raised' = FALSE
                  /\ fpc' = "returned"
             ELSE /\ fetch_raised' = TRUE
                  /\ fpc' = "raised"
                  /\ UNCHANGED fetch_result
    /\ UNCHANGED <<fetch_barcode, http_requests, beyondFetch>>

FetchIdle ==
    /\ fetch_barcode = <<>>
    /\ http_requests = <<>>
    /\ http_answer = NoAnswer
    /\ fetch_result = FetchNone
    /\ fetch_raised = FALSE
    /\ fpc = "idle"

(***************************************************************************)
(* product_enricher.scrape_product_data: the pages it fetches               *)
(***************************************************************************)
\* config/suppliers.py, lines 16-161: the suppliers in the order of the dict
SUPPLIER_CONFIGS ==
    <<[key |-> "clf", requires_login |-> TRUE],
      [key |-> "essential", requires_login |-> TRUE],
      [key |-> "suma", requires_login |-> TRUE],
      [key |-> "infinity", requires_login |-> FALSE]>>

\* FALLBACK_SEARCH_URLS[:2], source_name.lower().replace(" ", "_")
FallbackSearches == <<"holland_&_barrett", "planet_organic">>

\* what a fetch brings: nothing, an exception, a page that names the product
\* only, a page with ingredients
PageOutcomes == {"none", "raise", "name_only", "ingredients"}

Fetch(path, site) == [path |-> path, site |-> site]

Scraped(source, outcome) == [source |-> source, ingredients |-> outcome = "ingredients"]

\* data and (data.get("ingredients") or data.get("product_name"))
FireCrawlTakes(outcome) == outcome \in {"name_only", "ingredients"}

\* any(r.get("ingredients") for r in results)
AnyIngredients(rs) == \E k \in 1..Len(rs) : rs[k].ingredients

\* lines 345-361 and 391-405: the fallback searches in order, until the first
\* page that is taken; outcomes[k] is what search k brings
FallbackFetches(outcomes, Takes(_)) ==
    IF Takes(outcomes[1]) THEN 1 ELSE Len(FallbackSearches)

FallbackResults(outcomes, Takes(_)) ==
    IF Takes(outcomes[1]) THEN <<Scraped(FallbackSearches[1], outcomes[1])>>
    ELSE IF Takes(outcomes[2]) THEN <<Scraped(FallbackSearches[2], outcomes[2])>>
    ELSE <<>>

DirectTakes(outcome) == outcome = "ingredients"

\* line 304: FireCrawl first when it is configured
ScrapeBegin ==
    /\ spc = "start"
    /\ spc' = IF scrape_firecrawl THEN "fc_brand" ELSE "direct_brand"
    /\ UNCHANGED <<scrape_firecrawl, scrape_brand, scrape_results, fetched, sup_idx,
                   beyondScrape>>

\* lines 308-322: the brand website through FireCrawl
FireCrawlBrand(outcomes) ==
    /\ spc = "fc_brand"
    /\ IF scrape_brand
       THEN \E o \in outcomes :
               /\ fetched' = Append(fetched, Fetch("firecrawl", "brand"))
               /\ scrape_results' = IF FireCrawlTakes(o)
                                    THEN Append(scrape_results, Scraped("manufacturer", o))
                                    ELSE scrape_results
       ELSE UNCHANGED <<fetched, scrape_results>>
    /\ sup_idx' = 1
    /\ spc' = "fc_suppliers"
    /\ UNCHANGED <<scrape_firecrawl, scrape_brand, beyondScrape>>

\* lines 324-340: one round of the loop over SUPPLIER_CONFIGS through FireCrawl;
\* it stops after the first supplier that gives data
FireCrawlSupplier(outcomes) ==
    /\ spc = "fc_suppliers"
    /\ \E o \in outcomes :
          /\ fetched' = Append(fetched, Fetch("firecrawl", SUPPLIER_CONFIGS[sup_idx].key))
          /\ scrape_results' = IF FireCrawlTakes(o)
                               THEN Append(scrape_results,
                                           Scraped(SUPPLIER_CONFIGS[sup_idx].key, o))
                               ELSE scrape_results
          /\ IF FireCrawlTakes(o) \/ sup_idx = Len(SUPPLIER_CONFIGS)
             THEN spc' = "fc_fallback" /\ sup_idx' = 1
             ELSE spc' = "fc_suppliers" /\ sup_idx' = sup_idx + 1
    /\ UNCHANGED <<scrape_firecrawl, scrape_brand, beyondScrape>>

\* lines 342-361, and line 364: direct scraping only when FireCrawl gave nothing
FireCrawlFallback(outcomes) ==
    /\ spc = "fc_fallback"
    /\ IF scrape_results = <<>> \/ ~AnyIngredients(scrape_results)
       THEN \E os \in outcomes \X outcomes :
               /\ fetched' = fetched \o
                      [k \in 1..FallbackFetches(os, FireCrawlTakes) |->
                          Fetch("firecrawl", FallbackSearches[k])]
               /\ scrape_results' = scrape_results \o FallbackResults(os, FireCrawlTakes)
               /\ spc' = IF scrape_results \o FallbackResults(os, FireCrawlTakes) = <<>>
                         THEN "direct_brand" ELSE "merge"
       ELSE /\ spc' = "merge"
            /\ UNCHANGED <<fetched, scrape_results>>
    /\ UNCHANGED <<scrape_firecrawl, scrape_brand, sup_idx, beyondScrape>>

\* lines 367-381: the brand website, scraped directly
DirectBrand(outcomes) ==
    /\ spc = "direct_brand"
    /\ IF scrape_brand
       THEN \E o \in outcomes :
               /\ fetched' = Append(fetched, Fetch("direct", "brand"))
               /\ scrape_results' = IF DirectTakes(o)
                                    THEN Append(scrape_results, Scraped("manufacturer", o))
                                    ELSE scrape_results
       ELSE UNCHANGED <<fetched, scrape_results>>
    /\ sup_idx' = 1
    /\ spc' = "direct_suppliers"
    /\ UNCHANGED <<scrape_firecrawl, scrape_brand, beyondScrape>>

\* lines 383-394: one round of the direct loop over SUPPLIER_CONFIGS; a supplier
\* that requires a login is passed over, any data of another is taken
DirectSupplier(outcomes) ==
    /\ spc = "direct_suppliers"
    /\ IF SUPPLIER_CONFIGS[sup_idx].requires_login
       THEN UNCHANGED <<fetched, scrape_results>>
       ELSE \E o \in outcomes :
               /\ fetched' = Append(fetched, Fetch("direct", SUPPLIER_CONFIGS[sup_idx].key))
               /\ scrape_results' = IF o \in {"name_only", "ingredients"}
                                    THEN Append(scrape_results,
                                                Scraped(SUPPLIER_CONFIGS[sup_idx].key, o))
                                    ELSE scrape_results
    /\ IF sup_idx = Len(SUPPLIER_CONFIGS)
       THEN spc' = "direct_fallback" /\ sup_idx' = 1
       ELSE spc' = "direct_suppliers" /\ sup_idx' = sup_idx + 1
    /\ UNCHANGED <<scrape_firecrawl, scrape_brand, beyondScrape>>

\* lines 396-405: the fallback searches, scraped directly
DirectFallback(outcomes) ==
    /\ spc = "direct_fallback"
    /\ IF scrape_results = <<>> \/ ~AnyIngredients(scrape_results)
       THEN \E os \in outcomes \X outcomes :
               /\ fetched' = fetched \o
                      [k \in 1..FallbackFetches(os, DirectTakes) |->
                          Fetch("direct", FallbackSearches[k])]
               /\ scrape_results' = scrape_results \o FallbackResults(os, DirectTakes)
       ELSE UNCHANGED <<fetched, scrape_results>>
    /\ spc' = "merge"
    /\ UNCHANGED <<scrape_firecrawl, scrape_brand, sup_idx, beyondScrape>>

\* lines 407-411: merge_scraped_data(results) and the return
ScrapeMerge ==
    /\ spc = "merge"
    /\ spc' = "done"
    /\ UNCHANGED <<scrape_firecrawl, scrape_brand, scrape_results, fetched, sup_idx,
                   beyondScrape>>

ScrapeIdle ==
    /\ scrape_firecrawl = FALSE
    /\ scrape_brand = FALSE
    /\ scrape_results = <<>>
    /\ fetched = <<>>
    /\ sup_idx = 1
    /\ spc = "idle"

(***************************************************************************)
(* Specifications: one per part of the program, the variables of the other *)
(* parts resting at their idle values                                      *)
(***************************************************************************)
\* enrich_products on one product, against every answer of the services
EnrichInit == EnrichBegin({<<p>> : p \in ProductInputs}) /\ MergeIdle /\ GenIdle
    /\ CsvIdle /\ HeaderIdle /\ BarcodeIdle /\ DietIdle
    /\ ListIdle
    /\ RichIdle
    /\ MatchIdle
    /\ FlagIdle
    /\ FetchIdle
    /\ ScrapeIdle

EnrichNext ==
    \/ EnrichStart
    \/ OffReturn(OffOutcomes)
    \/ BrandCheck
    \/ BrandReturn(BrandOutcomes)
    \/ ScrapeCheck
    \/ ScrapeReturn(EnrichResultLists)
    \/ ScrapeRaise
    \/ Finish
    \/ Sleep

EnrichSpec == EnrichInit /\ [][EnrichNext]_vars

\* enrich_products on a batch
Batches == UNION {[1..n -> BatchInputs] : n \in 1..MaxProducts}

BatchInit == EnrichBegin(Batches) /\ MergeIdle /\ GenIdle
    /\ CsvIdle /\ HeaderIdle /\ BarcodeIdle /\ DietIdle
    /\ ListIdle
    /\ RichIdle
    /\ MatchIdle
    /\ FlagIdle
    /\ FetchIdle
    /\ ScrapeIdle

BatchNext ==
    \/ EnrichStart
    \/ OffReturn(BatchOffOutcomes)
    \/ BrandCheck
    \/ BrandReturn(BatchBrandOutcomes)
    \/ ScrapeCheck
    \/ ScrapeReturn(BatchResultLists)
    \/ ScrapeRaise
    \/ Finish
    \/ Sleep

BatchSpec == BatchInit /\ [][BatchNext]_vars

MergeInit ==
    /\ EnrichIdle /\ GenIdle /\ CsvIdle /\ HeaderIdle /\ BarcodeIdle /\ DietIdle
    /\ ListIdle
    /\ RichIdle
    /\ MatchIdle
    /\ FlagIdle
    /\ FetchIdle
    /\ ScrapeIdle
    /\ results \in MergeInputs
    /\ reordered \in Orderings(results)
    /\ merged = EmptyMerged
    /\ merged_reordered = EmptyMerged
    /\ mpc = "call"

MergeNext == MergeCall \/ MergeReorderedCall

MergeSpec == MergeInit /\ [][MergeNext]_vars

\* generate on a batch; client is what initialize_client left (lines 146-154,
\* 167-168): None when OPENAI_API_KEY is not set
GenBatches == UNION {[1..n -> GenInputs] : n \in 1..MaxProducts}

GenInit ==
    /\ EnrichIdle /\ MergeIdle /\ CsvIdle /\ HeaderIdle /\ BarcodeIdle /\ DietIdle
    /\ ListIdle
    /\ RichIdle
    /\ MatchIdle
    /\ FlagIdle
    /\ FetchIdle
    /\ ScrapeIdle
    /\ client \in BOOLEAN
    /\ gen_products \in GenBatches
    /\ gen_inputs = gen_products
    /\ enhanced_products = <<>>
    /\ gidx = 1
    /\ gpc = "single"
    /\ attempt = 0
    /\ gtrace = <<>>

GenNext ==
    \/ SingleNoClient
    \/ SingleStart
    \/ Create
    \/ CreateSucceeds
    \/ CreateFailsRetry
    \/ Backoff
    \/ CreateFailsLast

GenSpec == GenInit /\ [][GenNext]_vars

\* every await of the event loop completes: the LLM call is bounded by
\* timeout=OPENAI_TIMEOUT, the sleeps are finite
GenLiveSpec == GenSpec /\ WF_vars(GenNext)


\* process on a file
CsvInit ==
    /\ EnrichIdle /\ MergeIdle /\ GenIdle /\ HeaderIdle /\ BarcodeIdle /\ DietIdle
    /\ ListIdle
    /\ RichIdle
    /\ MatchIdle
    /\ FlagIdle
    /\ FetchIdle
    /\ ScrapeIdle
    /\ all_rows \in CsvFiles
    /\ has_headers = FALSE
    /\ csv_products = <<>>
    /\ row_num = 1
    /\ cpc = "read"
    /\ csv_error = ""

CsvNext ==
    \/ ReadRows
    \/ SkipBlankRow
    \/ StripRaises
    \/ HeaderedRow
    \/ HeaderlessRow
    \/ ReturnProducts

CsvSpec == CsvInit /\ [][CsvNext]_vars

\* detect_has_headers on a first row
HeaderInit ==
    /\ EnrichIdle /\ MergeIdle /\ GenIdle /\ CsvIdle /\ BarcodeIdle /\ DietIdle
    /\ ListIdle
    /\ RichIdle
    /\ MatchIdle
    /\ FlagIdle
    /\ FetchIdle
    /\ ScrapeIdle
    /\ given_row \in FirstRows
    /\ detected = FALSE
    /\ hpc = "call"

HeaderNext == DetectCall

HeaderSpec == HeaderInit /\ [][HeaderNext]_vars

\* clean_barcode on a barcode, and on its own result
BarcodeInit ==
    /\ EnrichIdle /\ MergeIdle /\ GenIdle /\ CsvIdle /\ HeaderIdle /\ DietIdle
    /\ ListIdle
    /\ RichIdle
    /\ MatchIdle
    /\ FlagIdle
    /\ FetchIdle
    /\ ScrapeIdle
    /\ given_barcode \in BarcodeInputs
    /\ cleaned = <<>>
    /\ recleaned = <<>>
    /\ bpc = "call"

BarcodeNext == CleanCall \/ CleanAgainCall

BarcodeSpec == BarcodeInit /\ [][BarcodeNext]_vars

\* detect_dietary_attributes on ingredients, a product text, badges and nutrition
DietInit ==
    /\ EnrichIdle /\ MergeIdle /\ GenIdle /\ CsvIdle /\ HeaderIdle /\ BarcodeIdle
    /\ ListIdle
    /\ RichIdle
    /\ MatchIdle
    /\ FlagIdle
    /\ FetchIdle
    /\ ScrapeIdle
    /\ diet_ingredients \in IngredientTexts
    /\ diet_product_text \in ProductTexts
    /\ diet_badges \in BadgeLists
    /\ diet_nutrition \in Nutritions
    /\ diet_attributes = {}
    /\ dpc = "call"

DietNext == DetectAttributes

DietSpec == DietInit /\ [][DietNext]_vars

\* format_list_metafield on a list of items, and the cell read back
ListInit ==
    /\ EnrichIdle
    /\ MergeIdle
    /\ GenIdle
    /\ CsvIdle
    /\ HeaderIdle
    /\ BarcodeIdle
    /\ DietIdle
    /\ RichIdle
    /\ MatchIdle
    /\ FlagIdle
    /\ FetchIdle
    /\ ScrapeIdle
    /\ given_items \in ItemLists
    /\ list_cell = <<>>
    /\ list_parsed = [ok |-> FALSE, value |-> <<>>]
    /\ lpc = "call"

ListNext == FormatList \/ ParseListCell

ListSpec == ListInit /\ [][ListNext]_vars

\* format_rich_text_metafield on a text, and the cell read back
RichInit ==
    /\ EnrichIdle
    /\ MergeIdle
    /\ GenIdle
    /\ CsvIdle
    /\ HeaderIdle
    /\ BarcodeIdle
    /\ DietIdle
    /\ ListIdle
    /\ MatchIdle
    /\ FlagIdle
    /\ FetchIdle
    /\ ScrapeIdle
    /\ given_text \in RichTexts
    /\ rich_cell = <<>>
    /\ rich_parsed = [ok |-> FALSE, value |-> <<>>]
    /\ rpc = "call"

RichNext == FormatRichText \/ ParseRichCell

RichSpec == RichInit /\ [][RichNext]_vars

\* match_products_to_inventory on a list of products and an inventory
MatchInit ==
    /\ EnrichIdle
    /\ MergeIdle
    /\ GenIdle
    /\ CsvIdle
    /\ HeaderIdle
    /\ BarcodeIdle
    /\ DietIdle
    /\ ListIdle
    /\ RichIdle
    /\ FlagIdle
    /\ FetchIdle
    /\ ScrapeIdle
    /\ given_inventory \in Inventories
    /\ match_products \in MatchLists
    /\ match_inputs = match_products
    /\ lookup_index = EmptyIndex
    /\ xidx = 1
    /\ xpc = "build"

MatchNext == BuildIndex \/ MatchProduct \/ MatchReturn

MatchSpec == MatchInit /\ [][MatchNext]_vars

\* one row of the flag sheet from ingestion to the exported cell
FlagInit ==
    /\ flag_row \in FlagRows
    /\ flag_product = NoFlagProduct
    /\ ingested = NoFlagProduct
    /\ dietary_cell = <<>>
    /\ dietary_parsed = [ok |-> FALSE, value |-> <<>>]
    /\ ppc = "row"
    /\ EnrichIdle
    /\ MergeIdle
    /\ GenIdle
    /\ CsvIdle
    /\ HeaderIdle
    /\ BarcodeIdle
    /\ DietIdle
    /\ ListIdle
    /\ RichIdle
    /\ MatchIdle
    /\ FetchIdle
    /\ ScrapeIdle

FlagNext ==
    \/ Ingest
    \/ EnrichIngested(ScrapedIngredients, ScrapedDescriptions, ScrapedBadges,
                      ScrapedNutritions)
    \/ ExportDietary
    \/ ImportDietary

FlagSpec == FlagInit /\ [][FlagNext]_vars

\* one call of fetch_nutrition_by_barcode
FetchInit ==
    /\ fetch_barcode \in LookupBarcodes
    /\ http_requests = <<>>
    /\ http_answer = NoAnswer
    /\ fetch_result = FetchNone
    /\ fetch_raised = FALSE
    /\ fpc = "call"
    /\ EnrichIdle
    /\ MergeIdle
    /\ GenIdle
    /\ CsvIdle
    /\ HeaderIdle
    /\ BarcodeIdle
    /\ DietIdle
    /\ ListIdle
    /\ RichIdle
    /\ MatchIdle
    /\ FlagIdle
    /\ ScrapeIdle

FetchNext ==
    \/ FetchCall
    \/ FetchAnswer(HttpAnswers)

FetchSpec == FetchInit /\ [][FetchNext]_vars

\* one call of scrape_product_data
ScrapeInit ==
    /\ scrape_firecrawl \in BOOLEAN
    /\ scrape_brand \in BOOLEAN
    /\ scrape_results = <<>>
    /\ fetched = <<>>
    /\ sup_idx = 1
    /\ spc = "start"
    /\ EnrichIdle
    /\ MergeIdle
    /\ GenIdle
    /\ CsvIdle
    /\ HeaderIdle
    /\ BarcodeIdle
    /\ DietIdle
    /\ ListIdle
    /\ RichIdle
    /\ MatchIdle
    /\ FlagIdle
    /\ FetchIdle

ScrapeNext ==
    \/ ScrapeBegin
    \/ FireCrawlBrand(PageOutcomes)
    \/ FireCrawlSupplier(PageOutcomes)
    \/ FireCrawlFallback(PageOutcomes)
    \/ DirectBrand(PageOutcomes)
    \/ DirectSupplier(PageOutcomes)
    \/ DirectFallback(PageOutcomes)
    \/ ScrapeMerge

ScrapeSpec == ScrapeInit /\ [][ScrapeNext]_vars

(***************************************************************************)
(* Properties                                                              *)
(***************************************************************************)
Returned == 1..Len(enriched)
HasCsvNutrition(p) == p.nutrition # {} /\ p.nutrition_source = "csv"
CallsOf(what, k) ==
    {j \in 1..Len(trace) :
        trace[j].ev = "call" /\ trace[j].what = what /\ trace[j].idx = k}

\* C1: a product that enters with non-empty nutrition tagged csv is returned with
\* that nutrition and nutrition_source csv, whatever the brand-website scrape and
\* the supplier scrape answer (the barcode lookup is not made for it).
C1_CsvNutritionKept ==
    \A k \in Returned :
        HasCsvNutrition(inputs[k]) =>
            /\ enriched[k].nutrition = inputs[k].nutrition
            /\ enriched[k].nutrition_source = "csv"

\* C1 witness: a csv-tagged product came back after the brand website supplied
\* its ingredients and the supplier scrape gathered results.
C1_Witness ==
    \E k \in Returned :
        /\ HasCsvNutrition(inputs[k])
        /\ enriched[k].ingredients_source = "brand_website"
        /\ enriched[k].scrape_sources # <<>>
        /\ enriched[k].enrichment_error = ""

StageRank(what) ==
    CASE what = "off" -> 1
      [] what = "brand" -> 2
      [] what = "scrape" -> 3
      [] what = "parse" -> 4

\* C2: for one product the stages start in the order barcode lookup, brand
\* website, supplier scrape, stage 5; each starts at most once; and a stage that
\* was started has answered before anything else happens.
C2_StagesInOrder ==
    /\ \A j, k \in 1..Len(trace) :
          (/\ j < k
           /\ trace[j].idx = trace[k].idx
           /\ trace[j].ev \in {"call", "finish"}
           /\ trace[k].ev \in {"call", "finish"})
          => StageRank(trace[j].what) < StageRank(trace[k].what)
    /\ \A j \in 1..Len(trace) :
          (trace[j].ev = "call" /\ j < Len(trace)) =>
              /\ trace[j + 1].ev \in {"return", "raise"}
              /\ trace[j + 1].what = trace[j].what
              /\ trace[j + 1].idx = trace[j].idx
    /\ \A j \in 1..Len(trace) :
          trace[j].ev \in {"return", "raise"} =>
              /\ j > 1
              /\ trace[j - 1].ev = "call"
              /\ trace[j - 1].what = trace[j].what

\* C2 witness: one product went through all four stages.
C2_Witness ==
    \E k \in Returned :
        /\ CallsOf("off", k) # {}
        /\ CallsOf("brand", k) # {}
        /\ CallsOf("scrape", k) # {}
        /\ enriched[k].enrichment_error = ""

\* C3: ingredients the product has after stages 1-3 (its own, or filled in by the
\* barcode lookup or the brand website) are the ingredients of the returned
\* product; the supplier scrape's ingredients are used only when there are none.
C3_IngredientsNotOverwritten ==
    \A k \in Returned :
        (enriched[k].enrichment_error = "" /\ products[k].ingredients # <<>>) =>
            enriched[k].ingredients = products[k].ingredients

\* C4: allergens the product entered with are not replaced by a lookup, and every
\* allergen the product has after stages 1-3 is among the returned allergens.
C4_AllergensKept ==
    \A k \in Returned :
        /\ inputs[k].allergens # {} => products[k].allergens = inputs[k].allergens
        /\ enriched[k].enrichment_error = "" =>
               products[k].allergens \subseteq enriched[k].allergens

Enriching == {"await_off", "brand", "await_brand", "scrape", "await_scrape"}

\* C5: during one enrichment, a nutrition_source that is set is not changed by a
\* later stage.
C5_SourceLabelStable ==
    [][(pc \in Enriching /\ nutrition_source # "") =>
           nutrition_source' = nutrition_source]_vars

\* C6: ingredients_source names the source of the returned ingredients: it is
\* openfoodfacts (brand_website) only when the returned text is the text the
\* barcode lookup (the brand website) gave.
C6_IngredientsSourceTrue ==
    \A k \in Returned :
        enriched[k].enrichment_error = "" =>
            /\ enriched[k].ingredients_source = "openfoodfacts" =>
                   enriched[k].ingredients = T_off
            /\ enriched[k].ingredients_source = "brand_website" =>
                   enriched[k].ingredients = T_brand

\* C7: the barcode lookup is made at most once per product, and only for a
\* product that has a barcode and no nutrition (so never for csv nutrition).
C7_BarcodeLookupOnce ==
    \A k \in 1..Len(inputs) :
        /\ Cardinality(CallsOf("off", k)) <= 1
        /\ CallsOf("off", k) # {} =>
              /\ inputs[k].nutrition = {}
              /\ inputs[k].ean # ""
              /\ ~HasCsvNutrition(inputs[k])

\* C7 witness: the lookup was made for a product, which has been returned with
\* the nutrition the lookup gave.
C7_Witness ==
    /\ pc = "done"
    /\ \E k \in Returned :
          /\ CallsOf("off", k) # {}
          /\ enriched[k].nutrition_source = "openfoodfacts"
          /\ enriched[k].nutrition = N_off

Holders(rs, f) == {k \in 1..Len(rs) : rs[k][f] # <<>>}

\* `m` holds, for each field, the value and the source of a result of `rs` whose
\* weight is the highest among the results that have the field, and nothing else
MergeOfBest(rs, m) ==
    /\ \A f \in Fields :
          IF Holders(rs, f) = {}
          THEN f \notin DOMAIN m /\ SourceKey(f) \notin DOMAIN m
          ELSE /\ f \in DOMAIN m
               /\ SourceKey(f) \in DOMAIN m
               /\ \E k \in Holders(rs, f) :
                     /\ \A j \in Holders(rs, f) : rs[j].weight <= rs[k].weight
                     /\ m[f] = rs[k][f]
                     /\ m[SourceKey(f)] = rs[k].source
    /\ DOMAIN m \subseteq Fields \cup {SourceKey(f) : f \in Fields}

\* C8: for each field the merge holds the value and the source of a result whose
\* weight is the highest among the results that have the field, the field is
\* absent exactly when no result has it, and this is so for the results in any
\* order, with the same outcome.
C8_HighestWeightWins ==
    mpc = "merged" =>
        /\ MergeOfBest(results, merged)
        /\ MergeOfBest(reordered, merged_reordered)
        /\ merged_reordered = merged

\* C8 witness: three results were merged in two different orders, and in one of
\* them a lower-weighted holder of nutrition_html stands before the
\* highest-weighted.
C8_Witness ==
    /\ mpc = "merged"
    /\ Len(results) = 3
    /\ reordered # results
    /\ \E j, k \in Holders(reordered, "nutrition_html") :
          j < k /\ reordered[j].weight < reordered[k].weight
    /\ "nutrition_html" \in DOMAIN merged

\* C9: enrich_products returns one entry per product, in input order; a failed
\* lookup leaves the product unmarked, an exception marks it with
\* _enrichment_error, and what was returned for earlier products and what was
\* passed in for other products is left alone.
C9_OneEntryPerProduct ==
    /\ [](/\ Len(enriched) = (IF pc \in {"sleep", "done"} THEN idx ELSE idx - 1)
          /\ pc = "done" => Len(enriched) = Len(inputs)
          /\ \A k \in Returned :
                /\ enriched[k].name = inputs[k].name
                /\ enriched[k].enrichment_error # "" <=>
                      \E j \in 1..Len(trace) :
                          trace[j].ev = "raise" /\ trace[j].idx = k)
    /\ [][/\ \A k \in Returned : k \in 1..Len(enriched') /\ enriched'[k] = enriched[k]
          /\ \A k \in 1..Len(products) : k # idx => products'[k] = products[k]]_vars

\* C9 witness: the first product failed with an exception, and the second was
\* enriched from the supplier scrape after it.
C9_Witness ==
    /\ pc = "done"
    /\ Len(enriched) = 2
    /\ enriched[1].enrichment_error # ""
    /\ enriched[2].enrichment_error = ""
    /\ enriched[2].scrape_sources # <<>>

\* C10: between any two external calls of a batch the delay elapses.
C10_DelayBetweenCalls ==
    \A j, k \in 1..Len(trace) :
        (j < k /\ trace[j].ev = "call" /\ trace[k].ev = "call") =>
            \E m \in (j + 1)..(k - 1) : trace[m].ev = "sleep"

(***************************************************************************)
(* Description generation                                                  *)
(***************************************************************************)
GenCalls(i) == {j \in DOMAIN gtrace : gtrace[j].idx = i /\ gtrace[j].ev = "call"}

GenFailed(i) == enhanced_products[i].generation_error # ""

InSingleProduct == gpc \in {"create", "await_create", "backoff"}

\* the events of gtrace follow the retry schedule: call 1, then after each
\* failed call k < OPENAI_MAX_RETRIES a sleep of 2^k and call k+1
RetrySchedule ==
    \A j \in DOMAIN gtrace :
        LET e == gtrace[j]
        IN /\ e.attempt \in 1..OPENAI_MAX_RETRIES
           /\ e.ev = "call" /\ e.attempt = 1 =>
                  \/ j = 1
                  \/ gtrace[j-1].ev = "call" /\ gtrace[j-1].idx < e.idx
           /\ e.ev = "call" /\ e.attempt > 1 =>
                  /\ j > 1
                  /\ gtrace[j-1] = [idx |-> e.idx, ev |-> "sleep",
                                    attempt |-> e.attempt - 1,
                                    wait_time |-> 2 ^ (e.attempt - 1)]
           /\ e.ev = "sleep" =>
                  /\ e.attempt < OPENAI_MAX_RETRIES
                  /\ e.wait_time = 2 ^ e.attempt
                  /\ j > 1
                  /\ gtrace[j-1] = [idx |-> e.idx, ev |-> "call",
                                    attempt |-> e.attempt, wait_time |-> 0]

\* a product that was returned or given up has no call or sleep after that,
\* and one that was given up had its last call not followed by a sleep
ReturnsOnce ==
    /\ \A j \in DOMAIN gtrace : gtrace[j].idx <= gidx
    /\ Len(enhanced_products) = (IF gpc = "done" THEN gidx ELSE gidx - 1)
    /\ \A i \in 1..Len(enhanced_products) :
          /\ Cardinality(GenCalls(i)) <= OPENAI_MAX_RETRIES
          /\ \A j \in DOMAIN gtrace :
                (gtrace[j].idx = i /\ \A k \in DOMAIN gtrace : k > j => gtrace[k].idx # i)
                    => gtrace[j].ev = "call"
          /\ (client /\ GenFailed(i)) => Cardinality(GenCalls(i)) = OPENAI_MAX_RETRIES
          /\ (client /\ ~GenFailed(i)) => Cardinality(GenCalls(i)) >= 1

\* C11: generate_single_product calls the LLM at most OPENAI_MAX_RETRIES (3)
\* times for a product; after failed attempt k < 3 it sleeps 2^k seconds and
\* makes attempt k+1; it returns on the first success; after the third failure
\* it raises without sleeping; and every call of it terminates
C11_RetriesWithBackoff ==
    /\ [](RetrySchedule /\ ReturnsOnce)
    /\ (InSingleProduct ~> ~InSingleProduct)

C11_Witness ==
    /\ gpc = "done"
    /\ client
    /\ \E i \in 1..Len(enhanced_products) :
          /\ GenFailed(i)
          /\ Cardinality(GenCalls(i)) = 3
          /\ \E j \in DOMAIN gtrace :
                gtrace[j] = [idx |-> i, ev |-> "sleep", attempt |-> 2, wait_time |-> 4]
    /\ \E i \in 1..Len(enhanced_products) :
          ~GenFailed(i) /\ Cardinality(GenCalls(i)) = 2

\* C12: generate returns one entry per input product, in input order; a
\* product whose generation failed carries _generation_error and the
\* placeholder descriptions; the products after it are still processed, each
\* with attempts counted from 1 up to OPENAI_MAX_RETRIES
C12_OneEntryPerProduct ==
    /\ Len(enhanced_products) <= Len(gen_inputs)
    /\ gpc = "done" => Len(enhanced_products) = Len(gen_inputs)
    /\ \A i \in 1..Len(enhanced_products) :
          /\ enhanced_products[i].name = gen_inputs[i].name
          /\ GenFailed(i) => enhanced_products[i].descriptions = PlaceholderDescriptions
          /\ ~GenFailed(i) => enhanced_products[i].descriptions
                                 \notin {PlaceholderDescriptions, NoDescriptions}
          /\ (client /\ i > 1 /\ GenFailed(i-1)) =>
                /\ \E j \in GenCalls(i) : gtrace[j].attempt = 1
                /\ GenFailed(i) => {gtrace[j].attempt : j \in GenCalls(i)}
                                       = 1..OPENAI_MAX_RETRIES

C12_Witness ==
    /\ gpc = "done"
    /\ client
    /\ Len(enhanced_products) = 2
    /\ gen_inputs[1].name # gen_inputs[2].name
    /\ GenFailed(1)
    /\ ~GenFailed(2)
    /\ Cardinality(GenCalls(2)) = 3

(***************************************************************************)
(* CSV ingestion                                                           *)
(***************************************************************************)
\* a row process can hand to its row parser
Parseable(k) ==
    IF detect_has_headers(all_rows[1])
    THEN k > 1 /\ all_rows[k] # <<>> /\ Len(all_rows[k]) <= Len(all_rows[1])
    ELSE TRUE

ParsedRow(k) ==
    IF detect_has_headers(all_rows[1])
    THEN parse_csv_row(all_rows[1], all_rows[k], Category)
    ELSE parse_headerless_row(all_rows[k], Category)

RECURSIVE ProductsOfRows(_)
\* the products of rows 1..k that parse to a product, in row order
ProductsOfRows(k) ==
    IF k = 0 THEN <<>>
    ELSE IF Parseable(k) /\ ParsedRow(k).found
    THEN Append(ProductsOfRows(k - 1), ParsedRow(k))
    ELSE ProductsOfRows(k - 1)

\* C13: process returns the products of exactly the rows that parse to a
\* product, in row order; a row that cannot be parsed or has no name is
\* skipped without affecting the other rows; process raises only for an
\* empty file or when no row yields a product
C13_BadRowsSkipped ==
    /\ cpc = "returned" => csv_products = ProductsOfRows(Len(all_rows))
    /\ cpc = "raised" =>
          \/ csv_error = "CSV file is empty" /\ all_rows = <<>>
          \/ /\ csv_error = "No valid products found in CSV"
             /\ ProductsOfRows(Len(all_rows)) = <<>>

\* C14: every product process emits has a name that is non-empty after
\* trimming and is none of the sentinel values n/a, none, null
C14_NameResolved ==
    \A i \in 1..Len(csv_products) :
        Lower(Strip(csv_products[i].name)) \notin SentinelValues

LooksLikeData(cell) ==
    LooksLikeCode(Strip(cell)) \/ LooksScientific(Strip(cell)) \/ LooksYesNo(Strip(cell))

\* C15: detect_has_headers answers headerless exactly when fewer than 2
\* cells of the first row contain a header keyword and at least 2 cells look
\* like raw data; for every other first row it answers headered
C15_HeaderlessExactlyWhen ==
    hpc = "detected" =>
        (~detected <=>
            /\ keyword_matches(given_row) < 2
            /\ Cardinality({i \in 1..Len(given_row) : LooksLikeData(given_row[i])}) >= 2)

\* C16: clean_barcode is idempotent:
\* clean_barcode(clean_barcode(x)) = clean_barcode(x)
C16_CleanIdempotent ==
    bpc = "cleaned" => recleaned = cleaned

C16_Witness ==
    /\ bpc = "cleaned"
    /\ given_barcode \in {DotZeroForm(d) : d \in DigitRuns({12})}
    /\ Len(cleaned) = 13
    /\ recleaned = cleaned

\* C17: for a 12- or 13-digit EAN d, leading zeros included, clean_barcode
\* gives the same digit string for d written plainly, with ".0" appended and
\* in full-precision scientific notation
C17_SameForEveryForm ==
    bpc = "cleaned" =>
        \A d \in DigitRuns({12, 13}) :
            given_barcode \in {DotZeroForm(d), ScientificForm(d)}
                => cleaned = clean_barcode(PlainForm(d))

\* the digits clean_barcode keeps, before the length is looked at
KeptDigits(b) ==
    IF b = <<>> THEN <<>>
    ELSE DigitsOnly(WithoutSeparators(FromFloat(FromScientific(Strip(b)))))

\* C18: clean_barcode returns the empty string or digits only; 12 kept digits
\* come back prefixed with "0", 8-11, 13 or 14 kept digits come back as they
\* are; the empty string is returned only for an input without any digit
C18_DigitsOnly ==
    bpc = "cleaned" =>
        /\ AllDigits(cleaned)
        /\ Len(KeptDigits(given_barcode)) = 12
              => cleaned = <<"0">> \o KeptDigits(given_barcode)
        /\ Len(KeptDigits(given_barcode)) \in {8, 9, 10, 11, 13, 14}
              => cleaned = KeptDigits(given_barcode)
        /\ cleaned = <<>> => DigitsOnly(given_barcode) = <<>>

\* C19: for every row parse_headerless_row accepts, the product's barcode is
\* clean_barcode of the row's barcode cell
C19_HeaderlessBarcodeCleaned ==
    [][(cpc = "rows" /\ ~has_headers /\ Len(csv_products') = Len(csv_products) + 1)
          => csv_products'[Len(csv_products')].barcode
                = clean_barcode(all_rows[row_num][3])]_vars

(***************************************************************************)
(* Dietary attributes                                                      *)
(***************************************************************************)
\* the attributes whose rule has requires_explicit_marker
ExplicitAttrs == {a \in DOMAIN DIETARY_RULES : DIETARY_RULES[a].requires_explicit_marker}

\* the phrase stands in the text as words of its own: no word character touches it
OccursAsPhrase(phrase, text) ==
    \E i \in 0..(Len(text) - Len(phrase)) :
        /\ SubSeq(text, i + 1, i + Len(phrase)) = phrase
        /\ ~IsWordAt(text, i)
        /\ ~IsWordAt(text, i + Len(phrase) + 1)

MarkerPhraseFound(a) ==
    \E marker \in DIETARY_RULES[a].positive_markers :
        OccursAsPhrase(marker, AllText(diet_ingredients, diet_product_text, diet_badges))

\* the same with the marker read as a bare run of characters
MarkerCharsFound(a) ==
    \E marker \in DIETARY_RULES[a].positive_markers :
        Contains(AllText(diet_ingredients, diet_product_text, diet_badges), marker)

\* C20: once detect_dietary_attributes has returned, each attribute whose rule
\* requires an explicit marker (Organic, Fairtrade, Raw) is in the result if and
\* only if one of the rule's positive-marker phrases occurs, as a phrase, in the
\* combined ingredients, product text and badges; the absence of negative
\* ingredients never adds it.
C20_ExplicitMarkerOnly ==
    dpc = "detected" =>
        \A a \in ExplicitAttrs :
            AttrName[a] \in diet_attributes <=> MarkerPhraseFound(a)

\* what the code does keep: the attribute is in the result exactly when the
\* characters of a marker are somewhere in the combined text, so an ingredient
\* list on its own, with no such characters, never adds it
ExplicitOnlyByMarkerChars ==
    dpc = "detected" =>
        \A a \in ExplicitAttrs :
            AttrName[a] \in diet_attributes <=> MarkerCharsFound(a)

\* the attributes that may be inferred from the ingredient list
InferredAttrs == DOMAIN DIETARY_RULES \ ExplicitAttrs

\* one of the rule's negative ingredients stands in the ingredient list as words
\* of its own
NegativePresent(a) ==
    \E neg \in DIETARY_RULES[a].negative_ingredients :
        OccursAsPhrase(neg, Lower(diet_ingredients))

\* the per-100g sugars of the nutrition data are at most 0.5
LowSugars == SugarFreeByNutrition(diet_nutrition[1], diet_nutrition[2])

QualifiesByWords(a) ==
    \/ MarkerPhraseFound(a)
    \/ /\ a \in InferredAttrs
       /\ ~NegativePresent(a)
       /\ diet_ingredients # <<>>
    \/ a = "Sugar_Free" /\ LowSugars

\* C22: every ingredient test and every marker test of
\* detect_dietary_attributes is word-boundary-safe: a negative ingredient or a
\* marker that occurs only inside a longer word is no match, so the result holds
\* an attribute exactly when markers and ingredients standing as words of their
\* own qualify it.
C22_WordBoundarySafe ==
    dpc = "detected" =>
        \A a \in DOMAIN DIETARY_RULES :
            AttrName[a] \in diet_attributes <=> QualifiesByWords(a)

(***************************************************************************)
(* Allergen statements                                                     *)
(***************************************************************************)
\* the positions of text inside its "may contain" clause
InMayContain(text) ==
    {k \in 1..Len(text) :
        \E s \in 1..(k - 1) :
            /\ text[s] = "may contain:"
            /\ \A j \in (s + 1)..k : text[j] \notin {".", "may contain:"}
            /\ \A j \in 1..(s - 1) : text[j] # "may contain:"}

\* the words the ingredient text and the statement text name only in a
\* "may contain" clause
OnlyMayContain(ingredients_text, statement_text) ==
    {statement_text[k] : k \in InMayContain(statement_text)} \
        ({ingredients_text[k] : k \in (1..Len(ingredients_text)) \ InMayContain(ingredients_text)}
         \cup {statement_text[k] : k \in (1..Len(statement_text)) \ InMayContain(statement_text)})

\* the names under which a word can stand in a list of allergens
AllergenNames(w) ==
    {Title(w)} \cup {DisplayName[n] : n \in {m \in DOMAIN ALLERGEN_PATTERNS :
                                                w \in ALLERGEN_PATTERNS[m]}}

\* C23: in the product enrich_product returns, an allergen named only in a
\* "may contain" statement is in may_contain and under no name in allergens.
C23_MayContainKeptApart ==
    [][(pc = "finish" /\ Len(enriched') = Len(enriched) + 1) =>
          LET ingredients_text == IngredientsText(scraped_data, products[idx])
              statement_text == StatementText(scraped_data, ingredients_text)
              e == enriched'[Len(enriched')]
          IN \A w \in OnlyMayContain(ingredients_text, statement_text) :
                /\ Title(w) \in e.may_contain
                /\ AllergenNames(w) \cap e.allergens = {}]_vars

(***************************************************************************)
(* Shopify metafields                                                      *)
(***************************************************************************)
\* an item as an entry of a list metafield has to be: without control
\* characters, at most 255 characters long, and stripped
Tidy(item) ==
    LET plain == Strip(SelectSeq(item, LAMBDA c : c \notin ControlChars))
    IN Strip(IF Len(plain) > 255 THEN SubSeq(plain, 1, 255) ELSE plain)

\* the items after cleaning: None and blank entries dropped
TidyItems(items) ==
    LET kept == SelectSeq(items, LAMBDA item : item # NoneItem /\ Tidy(item) # <<>>)
    IN [k \in 1..Len(kept) |-> Tidy(kept[k])]

\* C24: the cell format_list_metafield returns is the empty string exactly when
\* the list of cleaned items is empty (never "[]" or null); any other cell is
\* a JSON array of strings that parses back to exactly the cleaned items: None
\* and blank entries dropped, each entry stripped, free of control characters
\* and at most 255 characters long.
C24_ListRoundTrip ==
    lpc = "parsed" =>
        /\ list_cell = <<>> <=> TidyItems(given_items) = <<>>
        /\ list_cell # <<>> =>
              /\ list_parsed.ok
              /\ list_parsed.value = TidyItems(given_items)

\* what the code does keep: a cell that is not empty is a JSON array that parses
\* back to the entries the loop appended, and there is at least one of them
ListCellParsesBack ==
    lpc = "parsed" /\ list_cell # <<>> =>
        /\ list_parsed.ok
        /\ list_parsed.value # <<>>
        /\ \A k \in 1..Len(list_parsed.value) :
              /\ Len(list_parsed.value[k]) <= 255
              /\ \A i \in 1..Len(list_parsed.value[k]) :
                    list_parsed.value[k][i] \notin ControlChars

\* the non-empty newline-delimited segments of a text, tags stripped, each with
\* its whitespace normalised and its control characters removed
Segments(text) ==
    LET lines == Split(StripTags(text), "\n")
        values == [k \in 1..Len(lines) |->
                      NormalizeWhitespace(WithoutOtherControlChars(lines[k]))]
    IN SelectSeq(values, LAMBDA v : v # <<>>)

\* C25: for a text with at least one non-blank line the cell
\* format_rich_text_metafield returns parses back to a document of type root
\* whose children are one paragraph per non-empty newline-delimited segment of
\* the text (tags stripped), in order, each holding one text node with that
\* segment as its value; for an empty or blank text the cell is the empty string.
C25_ParagraphPerLine ==
    rpc = "parsed" =>
        IF Segments(given_text) = <<>>
        THEN rich_cell = <<>>
        ELSE /\ rich_cell # <<>>
             /\ rich_parsed.ok
             /\ rich_parsed.value = Segments(given_text)

\* what the code does keep: the same for a text of one line without control
\* characters
OneLineOneParagraph ==
    (/\ rpc = "parsed"
     /\ Len(Segments(given_text)) <= 1
     /\ WithoutOtherControlChars(given_text) = given_text) => C25_ParagraphPerLine

(***************************************************************************)
(* Inventory matching                                                      *)
(***************************************************************************)
RecordsOf(inv) == {inv[k] : k \in 1..Len(inv)}

\* the records a product hits by its barcode, by its SKU and by its title
HitsByBarcode(p, inv) ==
    LET code == IF p.barcode # <<>> THEN p.barcode ELSE p.ean
    IN {r \in RecordsOf(inv) : code # <<>> /\ Strip(r.Variant_Barcode) = code}

HitsBySku(p, inv) ==
    {r \in RecordsOf(inv) : p.sku # <<>> /\ Strip(r.Variant_SKU) = p.sku}

HitsByTitle(p, inv) ==
    {r \in RecordsOf(inv) :
        /\ Strip(p.name) # <<>>
        /\ Lower(Strip(r.Title)) = Lower(Strip(p.name))}

\* the hits of the first key that has any
DecidingHits(p, inv) ==
    IF HitsByBarcode(p, inv) # {} THEN HitsByBarcode(p, inv)
    ELSE IF HitsBySku(p, inv) # {} THEN HitsBySku(p, inv)
    ELSE HitsByTitle(p, inv)

\* C26: once match_products_to_inventory has returned, every product carries the
\* ID and Handle of a record hit by the first of barcode, SKU and exact
\* case-insensitive title that hits at all, whatever the later keys would hit;
\* a product that hits on no key has no shopify_id and no shopify_handle.
C26_FirstKeyDecides ==
    xpc = "returned" =>
        \A k \in 1..Len(match_products) :
            LET hits == DecidingHits(match_inputs[k], given_inventory)
                p == match_products[k]
            IN IF hits = {}
               THEN p.shopify_id = <<>> /\ p.shopify_handle = <<>>
               ELSE \E r \in hits : p.shopify_id = r.ID /\ p.shopify_handle = r.Handle

\* a product whose barcode hits one record and whose SKU hits another came back
\* with the ID of the record of the barcode
C26_Witness ==
    /\ xpc = "returned"
    /\ \E k \in 1..Len(match_products) :
          LET inp == match_inputs[k]
          IN /\ HitsByBarcode(inp, given_inventory) # {}
             /\ HitsBySku(inp, given_inventory) # {}
             /\ HitsByBarcode(inp, given_inventory) \cap HitsBySku(inp, given_inventory) = {}
             /\ \E r \in HitsByBarcode(inp, given_inventory) :
                   match_products[k].shopify_id = r.ID /\ r.ID # <<>>

\* the tags the row sets by a Yes flag column
FlaggedTags ==
    {dietary_columns[k].label : k \in
        {j \in 1..Len(dietary_columns) :
            is_yes_value(RowGet(FlagFieldnames, flag_row, dietary_columns[j].column))}}

\* the four icons of extract_icons_from_csv
IconTags == {"Palm Oil Free", "Organic", "Vegan", "Fairtrade"}

\* after ingestion a flagged tag is in the product's dietary, and in its icons
\* when the tag is one of the four icons
IngestedKeepsFlags ==
    ingested.found =>
        \A tag \in FlaggedTags :
            /\ InList(tag, ingested.dietary)
            /\ tag \in IconTags => InList(tag, ingested.icons)

\* C27: a dietary tag set by an explicit Yes flag column of the CSV row is in
\* the product's dietary (and, for an icon tag, in its icons) after ingestion,
\* is still in the product's dietary after enrich_product whatever the external
\* sources return, and the dietary-preferences cell of the exported row is
\* valid JSON containing that tag.
C27_FlagTagReachesExport ==
    /\ IngestedKeepsFlags
    /\ ppc \in {"enriched", "exported", "imported"} =>
           \A tag \in FlaggedTags : InList(tag, flag_product.dietary)
    /\ ppc = "imported" =>
           \A tag \in FlaggedTags :
               /\ dietary_parsed.ok
               /\ InList(TagText[tag], dietary_parsed.value)

\* the barcode with its spaces and dashes removed, and nothing else
WithoutSpacesAndDashes(barcode) == SelectSeq(barcode, NotSpaceOrDash)

\* all digits and 8 to 14 long
ValidForLookup_Stated(barcode) ==
    /\ Len(barcode) \in 8..14
    /\ \A i \in 1..Len(barcode) : barcode[i] \in DigitChars

\* the answers the claim names: not found, a status other than 200, a timeout,
\* a network error
NoDataAnswer(answer) ==
    \/ answer.kind \in {"timeout", "client_error"}
    \/ answer.kind = "response" /\ answer.status # 200
    \/ answer.kind = "response" /\ answer.json = "object" /\ answer.found # 1

\* the claim for a given reading of the cleaned barcode
LookupContract(barcode) ==
    /\ ~fetch_raised
    /\ http_requests # <<>> => ValidForLookup_Stated(barcode)
    /\ fpc = "returned" /\ (~ValidForLookup_Stated(barcode) \/ NoDataAnswer(http_answer))
           => fetch_result = FetchNone

\* C28 as stated: a request is issued only when the barcode without its spaces
\* and dashes is all digits and 8 to 14 long; for any other barcode, a
\* not-found answer, a non-200 status, a timeout or a network error the
\* function returns None, and it never raises.
C28_RequestOnlyForNumericBarcode == LookupContract(WithoutSpacesAndDashes(fetch_barcode))

\* C28 amended: the same with the barcode stripped of the whitespace around it
\* before its spaces and dashes are removed.
C28_RequestOnlyForStrippedBarcode ==
    LookupContract(SelectSeq(Strip(fetch_barcode), NotSpaceOrDash))

\* a request went out for a barcode written with blanks and dashes, and the
\* API did not know it
C28_Witness ==
    /\ fpc = "returned"
    /\ HasChar(fetch_barcode, "-")
    /\ http_requests = <<<<"5", "0", "3", "0", "0", "0", "0", "9", "9">>>>
    /\ http_answer.status = 404
    /\ fetch_result = FetchNone

\* the suppliers whose configuration is marked requires_login
LoginSuppliers ==
    {SUPPLIER_CONFIGS[k].key : k \in {j \in 1..Len(SUPPLIER_CONFIGS) :
                                         SUPPLIER_CONFIGS[j].requires_login}}

\* no page of a login supplier is fetched on the given path
NoLoginFetch(path) ==
    \A k \in 1..Len(fetched) :
        fetched[k].path = path => fetched[k].site \notin LoginSuppliers

\* what the code does keep: the direct path passes over the login suppliers
DirectPathSkipsLogin == NoLoginFetch("direct")

\* C29: scrape_product_data never fetches from a supplier marked requires_login,
\* on the FireCrawl path as on the direct path, no result comes from such a
\* supplier, and the scrape still returns.
C29_LoginSuppliersSkipped ==
    /\ NoLoginFetch("firecrawl")
    /\ NoLoginFetch("direct")
    /\ \A k \in 1..Len(scrape_results) : scrape_results[k].source \notin LoginSuppliers

\* C30: in every product enrich_product returns, a nutrition_source that is not
\* empty comes with a nutrition mapping that is not empty.
C30_SourceImpliesNutrition ==
    \A k \in 1..Len(enriched) :
        enriched[k].nutrition_source # "" => enriched[k].nutrition # {}

\* what the code does keep: the label brand_website is given with nutrient
\* values only
BrandLabelHasNutrition ==
    \A k \in 1..Len(enriched) :
        enriched[k].nutrition_source = "brand_website" => enriched[k].nutrition # {}

====
